---------------------------- MODULE Spec2Model ----------------------------
(***************************************************************************)
(* The message log of goLangTraining: the line codec (addMessage /         *)
(* parseMessageLine), the query layer (readMessagesForAPI, getLastMessages,*)
(* readLast10Messages, the CLI printers) and the adapters that expose the  *)
(* file messages.txt (REST, gRPC, CLI, the file-storage endpoint).         *)
(*                                                                         *)
(* Strings are sequences of one-character strings; a file is the sequence  *)
(* of its bytes; a path that does not exist holds NoFile.                  *)
(***************************************************************************)
EXTENDS Integers, Sequences, FiniteSets, TLC

VARIABLES
    fs,        \* the file system: path -> File(bytes) or NoFile
    resp,      \* the request just served and the response it got
    cleared,   \* history: TRUE from a successful clear until the next successful append
    qfile,     \* read paths alone: the bytes of messages.txt they are applied to (or NoFile)
    qres,      \* read paths alone: the read path applied last and what it returned
    cin,       \* codec and decoder alone: the (user, text, clock) or the line handed in
    cout,      \* codec and decoder alone: what reading back or decoding gave
    writers,   \* concurrent appends: the file they started from and each writer's position
    conn,      \* WebSocket connection: the handler's position and the frames sent so far
    served,    \* trace identifiers: the identifiers drawn and the requests of the run
    proc       \* a running program: its position, the signals it got, what it logged

vars == <<fs, resp, cleared, qfile, qres, cin, cout, writers, conn, served, proc>>

----------------------------------------------------------------------------
(* Bounds of the model.                                                    *)

\* most lines messages.txt holds before the model stops appending
MaxLines == 2
\* clock readings 0..MaxClock (seconds) that time.Now() may give
MaxClock == 0
\* longest user and text handed to the codec alone
MaxUserLen == 2
MaxTextLen == 2
\* every sequence of line kinds up to this length is a file the read paths are applied to
MaxSmallFile == 3
\* limits 1..MaxLimit are handed to getLastMessages
MaxLimit == 3
\* the longest end of a line handed to the decoder alone
MaxTailLen == 5
\* the long files have LongFileLines lines, one of them malformed
LongFileLines == 15

----------------------------------------------------------------------------
(* Strings.                                                                *)

NL == "\n"
CR == "\r"

\* What a path holds: no file, or a file with its bytes.
NoFile == [exists |-> FALSE, bytes |-> <<>>]
File(bytes) == [exists |-> TRUE, bytes |-> bytes]

Digit(n) == CASE n = 0 -> "0" [] n = 1 -> "1" [] n = 2 -> "2" [] n = 3 -> "3"
              [] n = 4 -> "4" [] n = 5 -> "5" [] n = 6 -> "6" [] n = 7 -> "7"
              [] n = 8 -> "8" [] n = 9 -> "9"

Digits == {Digit(n) : n \in 0..9}

Min(a, b) == IF a <= b THEN a ELSE b

\* s[from:] of Go, from counted from 0
SliceFrom(s, from) == SubSeq(s, from + 1, Len(s))

\* s[from:to] of Go; the caller has checked from <= to
Slice(s, from, to) == SubSeq(s, from + 1, to)

\* The loop "for i := 0; i < len(s)-1; i++ { if s[i] == c1 && s[i+1] == c2 { found = i; break } }":
\* the first index (from 0) at which c1 c2 stands in s, or -1.
indexOfPair(s, c1, c2) ==
    LET hits == {i \in 0..(Len(s) - 2) : s[i + 1] = c1 /\ s[i + 2] = c2}
    IN  IF hits = {} THEN -1 ELSE CHOOSE i \in hits : \A j \in hits : i <= j

----------------------------------------------------------------------------
(* Time.  A clock reading t stands for t seconds after 2006-01-02 15:04:00.*)

\* time.Now().Format("2006-01-02 15:04:05")
FormatTime(t) ==
    <<"2", "0", "0", "6", "-", "0", "1", "-", "0", "2", " ",
      "1", "5", ":", "0", "4", ":", Digit(t \div 10), Digit(t % 10)>>

\* The positions of the layout "2006-01-02 15:04:05" that hold a separator.
LayoutSeparator(i) == CASE i \in {5, 8} -> "-" [] i = 11 -> " " [] i \in {14, 17} -> ":" [] OTHER -> ""

\* time.Parse("2006-01-02 15:04:05", s) succeeds: 19 characters, digits and separators in place.
\* (The model's timestamps keep month, day, hour and minute in range.)
timeParses(s) ==
    /\ Len(s) = 19
    /\ \A i \in 1..19 : IF LayoutSeparator(i) = "" THEN s[i] \in Digits ELSE s[i] = LayoutSeparator(i)

----------------------------------------------------------------------------
(* The line codec.                                                         *)

\* fmt.Sprintf("[%s] %s: %s\n", timestamp, user, message)
FormatLine(timestamp, user, message) ==
    <<"[">> \o timestamp \o <<"]", " ">> \o user \o <<":", " ">> \o message \o <<NL>>

\* fmt.Sprintf("%s: %s\n", user, message), the format of the Assignment 1 command line
FormatPlainLine(user, message) ==
    user \o <<":", " ">> \o message \o <<NL>>

Nil == [kind |-> "nil"]
Panic == [kind |-> "panic"]

\* the last index (from 0) at which c1 c2 stands in s, or -1
lastIndexOfPair(s, c1, c2) ==
    LET hits == {i \in 0..(Len(s) - 2) : s[i + 1] = c1 /\ s[i + 2] = c2}
    IN  IF hits = {} THEN -1 ELSE CHOOSE i \in hits : \A j \in hits : i >= j

\* parseMessageLine splitting user from text at the last ": " of the line
parseMessageLineLastColon(line, id, traceID, now) ==
    IF Len(line) < 22 THEN Nil
    ELSE LET timestampEnd == indexOfPair(line, "]", " ")
         IN  IF timestampEnd = -1 THEN Nil
             ELSE LET remaining == SliceFrom(line, timestampEnd + 2)
                      colonIndex == lastIndexOfPair(remaining, ":", " ")
                  IN  IF colonIndex = -1 THEN Nil
                      ELSE IF timestampEnd < 1 THEN Panic
                      ELSE [kind      |-> "msg",
                            id        |-> id,
                            user      |-> Slice(remaining, 0, colonIndex),
                            message   |-> SliceFrom(remaining, colonIndex + 2),
                            timestamp |-> FormatTime(now),
                            traceID   |-> traceID]

\* parseMessageLine without the test of the minimum length
parseMessageLineNoMinimum(line, id, traceID, now) ==
    LET timestampEnd == indexOfPair(line, "]", " ")
    IN  IF timestampEnd = -1 THEN Nil
        ELSE LET remaining == SliceFrom(line, timestampEnd + 2)
                 colonIndex == indexOfPair(remaining, ":", " ")
             IN  IF colonIndex = -1 THEN Nil
                 ELSE IF timestampEnd < 1 THEN Panic
                 ELSE LET timestampStr == Slice(line, 1, timestampEnd)
                      IN  [kind      |-> "msg",
                           id        |-> id,
                           user      |-> Slice(remaining, 0, colonIndex),
                           message   |-> SliceFrom(remaining, colonIndex + 2),
                           timestamp |-> IF timeParses(timestampStr)
                                         THEN timestampStr
                                         ELSE FormatTime(now),
                           traceID   |-> traceID]

\* parseMessageLine giving up the line when its timestamp does not parse
parseMessageLineStrictTime(line, id, traceID, now) ==
    IF Len(line) < 22 THEN Nil
    ELSE LET timestampEnd == indexOfPair(line, "]", " ")
         IN  IF timestampEnd = -1 THEN Nil
             ELSE LET remaining == SliceFrom(line, timestampEnd + 2)
                      colonIndex == indexOfPair(remaining, ":", " ")
                  IN  IF colonIndex = -1 THEN Nil
                      ELSE IF timestampEnd < 1 THEN Panic
                      ELSE LET timestampStr == Slice(line, 1, timestampEnd)
                           IN  IF ~timeParses(timestampStr) THEN Nil
                               ELSE [kind      |-> "msg",
                                     id        |-> id,
                                     user      |-> Slice(remaining, 0, colonIndex),
                                     message   |-> SliceFrom(remaining, colonIndex + 2),
                                     timestamp |-> timestampStr,
                                     traceID   |-> traceID]

\* parseMessageLine(line, id, traceID): nil, a Message, or a run-time panic
\* (line[1:timestampEnd] with timestampEnd = 0 is out of range).
\* now is the reading time.Now() gives when the timestamp does not parse.
parseMessageLine(line, id, traceID, now) ==
    IF Len(line) < 22 THEN Nil
    ELSE LET timestampEnd == indexOfPair(line, "]", " ")
         IN  IF timestampEnd = -1 THEN Nil
             ELSE LET remaining == SliceFrom(line, timestampEnd + 2)
                      colonIndex == indexOfPair(remaining, ":", " ")
                  IN  IF colonIndex = -1 THEN Nil
                      ELSE IF timestampEnd < 1 THEN Panic
                      ELSE LET timestampStr == Slice(line, 1, timestampEnd)
                           IN  [kind      |-> "msg",
                                id        |-> id,
                                user      |-> Slice(remaining, 0, colonIndex),
                                message   |-> SliceFrom(remaining, colonIndex + 2),
                                timestamp |-> IF timeParses(timestampStr)
                                              THEN timestampStr
                                              ELSE FormatTime(now),
                                traceID   |-> traceID]

----------------------------------------------------------------------------
(* Reading a file line by line.                                            *)

\* dropCR of bufio: a trailing carriage return is not part of the line
dropCR(data) ==
    IF Len(data) > 0 /\ data[Len(data)] = CR THEN SubSeq(data, 1, Len(data) - 1) ELSE data

\* bufio.Scanner with the default split function ScanLines, scanned to the end:
\* the lines of the bytes, each without its end-of-line marker; a last line
\* without a newline counts when it is not empty.
ScanLines(bytes) ==
    LET ends  == {i \in 1..Len(bytes) : bytes[i] = NL}
        n     == Cardinality(ends)
        \* the position of the k-th newline; 0 stands before the first byte
        endAt == [k \in 0..n |-> IF k = 0 THEN 0
                                 ELSE CHOOSE e \in ends : Cardinality({x \in ends : x <= e}) = k]
        terminated == [k \in 1..n |-> dropCR(SubSeq(bytes, endAt[k - 1] + 1, endAt[k] - 1))]
        rest  == SubSeq(bytes, endAt[n] + 1, Len(bytes))
    IN  IF rest = <<>> THEN terminated ELSE Append(terminated, dropCR(rest))

----------------------------------------------------------------------------
(* The file system.  A fault is what the operating system answers to an    *)
(* open, truncate or write besides "no such file": "none" or "denied".     *)

Faults == {"none", "denied"}

\* os.Open(name): "ok", "notexist" (os.IsNotExist(err)) or "error"
openResult(content, fault) ==
    IF fault = "denied" THEN "error"
    ELSE IF ~content.exists THEN "notexist"
    ELSE "ok"

\* os.OpenFile(name, O_APPEND|O_CREATE|O_WRONLY, 0644) followed by f.WriteString(line):
\* the bytes of the file afterwards
appendBytes(content, line) ==
    File(content.bytes \o line)

\* os.Truncate(name, 0): the file afterwards; a missing file is not created
truncateBytes(content) ==
    IF content.exists THEN File(<<>>) ELSE NoFile

\* What a store operation returns: whether it failed, and the file afterwards.
Stored(content) == [err |-> FALSE, content |-> content]
Failed(content) == [err |-> TRUE, content |-> content]

\* addMessage(user, message) of main.go and saveMessage of the gRPC server, at clock t
addMessage(content, user, message, t, fault) ==
    IF fault = "denied" THEN Failed(content)
    ELSE Stored(appendBytes(content, FormatLine(FormatTime(t), user, message)))

\* appendMessage(user, message) of the service package and of the Assignment 1 command line
appendMessage(content, user, message, fault) ==
    IF fault = "denied" THEN Failed(content)
    ELSE Stored(appendBytes(content, FormatPlainLine(user, message)))

\* err := os.Truncate(messagesFileName, 0); if err != nil && !os.IsNotExist(err) { error }
\* of clearMessages (main.go), runAssignment1 (service) and the Assignment 1 command line
clearMessages(content, fault) ==
    IF fault = "denied" THEN Failed(content) ELSE Stored(truncateBytes(content))

\* a SaveData that opens the file for appending instead of replacing it
SaveDataAppending(content, data, fault) ==
    IF fault = "denied" THEN Failed(content) ELSE Stored(appendBytes(content, data))

\* os.WriteFile(filePath, content, 0644) of storage.SaveData: the file is created
\* or replaced
SaveData(content, data, fault) ==
    IF fault = "denied" THEN Failed(content) ELSE Stored(File(data))

\* a ReadData for which, as for the message store's read, absence is no error
ReadDataAbsentEmpty(content, fault) ==
    IF fault = "denied" THEN [err |-> TRUE, data |-> <<>>]
    ELSE [err |-> FALSE, data |-> content.bytes]

\* os.ReadFile(filePath) of storage.ReadData: the bytes, or "" and an error
ReadData(content, fault) ==
    IF openResult(content, fault) = "ok" THEN [err |-> FALSE, data |-> content.bytes]
    ELSE [err |-> TRUE, data |-> <<>>]

----------------------------------------------------------------------------
(* The query layer.  A read returns [kind |-> "ok", messages |-> ...],     *)
(* [kind |-> "err"] (an error value) or Panic.                             *)

Ok(messages) == [kind |-> "ok", messages |-> messages]
Err == [kind |-> "err"]

\* the loop of readMessagesForAPI with id++ on every line read, decoded or not
RECURSIVE decodeLinesCountingAll(_, _, _, _)
decodeLinesCountingAll(lines, id, traceID, now) ==
    IF lines = <<>> THEN <<>>
    ELSE LET line == Head(lines)
             message == IF line # <<>> THEN parseMessageLine(line, id, traceID, now) ELSE Nil
         IN  (IF message # Nil THEN <<message>> ELSE <<>>)
                 \o decodeLinesCountingAll(Tail(lines), id + 1, traceID, now)

\* The loop of readMessagesForAPI over the scanned lines: the messages appended so
\* far, id being the next id to hand out.
RECURSIVE decodeLines(_, _, _, _)
decodeLines(lines, id, traceID, now) ==
    IF lines = <<>> THEN <<>>
    ELSE LET line == Head(lines)
             message == IF line # <<>> THEN parseMessageLine(line, id, traceID, now) ELSE Nil
         IN  IF message # Nil
             THEN <<message>> \o decodeLines(Tail(lines), id + 1, traceID, now)
             ELSE decodeLines(Tail(lines), id, traceID, now)

\* a line of the file makes parseMessageLine panic
panics(lines) ==
    \E i \in 1..Len(lines) : lines[i] # <<>> /\ parseMessageLine(lines[i], 1, "", 0) = Panic

\* readMessagesForAPI giving every message one identifier, whoever reads
readMessagesForAPIOneTrace(content, traceID, fault, now) ==
    CASE openResult(content, fault) = "notexist" -> Ok(<<>>)
      [] openResult(content, fault) = "error" -> Err
      [] OTHER -> IF panics(ScanLines(content.bytes)) THEN Panic
                  ELSE Ok(decodeLines(ScanLines(content.bytes), 1, <<>>, now))

readMessagesForAPI(content, traceID, fault, now) ==
    CASE openResult(content, fault) = "notexist" -> Ok(<<>>)
      [] openResult(content, fault) = "error" -> Err
      [] OTHER -> IF panics(ScanLines(content.bytes)) THEN Panic
                  ELSE Ok(decodeLines(ScanLines(content.bytes), 1, traceID, now))

\* getLastMessages returning the first limit messages instead of the last
getLastMessagesFirst(content, limit, traceID, fault, now) ==
    LET all == readMessagesForAPI(content, traceID, fault, now)
    IN  IF all.kind # "ok" THEN all
        ELSE Ok(SubSeq(all.messages, 1, Min(limit, Len(all.messages))))

\* getLastMessages(ctx, limit)
getLastMessages(content, limit, traceID, fault, now) ==
    LET all == readMessagesForAPI(content, traceID, fault, now)
    IN  IF all.kind # "ok" THEN all
        ELSE IF Len(all.messages) <= limit THEN all
        ELSE LET startIndex == Len(all.messages) - limit
             IN  Ok(SliceFrom(all.messages, startIndex))

\* The window size of the gRPC server and of the command-line printers.
Last10 == 10

\* the window taken to be the whole file
lastTenLinesWhole(lines) == [start |-> 0, lines |-> lines]

\* lines[start:] with start = len(lines) - 10 when there are more than 10 lines
lastTenLines(lines) ==
    LET start == IF Len(lines) > Last10 THEN Len(lines) - Last10 ELSE 0
    IN  [start |-> start, lines |-> SliceFrom(lines, start)]

\* The loop of readLast10Messages: line i (from 0) of the window gets id start+i+1.
RECURSIVE decodeWindow(_, _, _, _, _)
decodeWindow(lines, i, start, traceID, now) ==
    IF i >= Len(lines) THEN <<>>
    ELSE LET line == lines[i + 1]
             message == IF line # <<>> THEN parseMessageLine(line, start + i + 1, traceID, now) ELSE Nil
         IN  (IF message # Nil THEN <<message>> ELSE <<>>)
                 \o decodeWindow(lines, i + 1, start, traceID, now)

\* readLast10Messages(ctx) of the gRPC server
readLast10Messages(content, traceID, fault, now) ==
    CASE openResult(content, fault) = "notexist" -> Ok(<<>>)
      [] openResult(content, fault) = "error" -> Err
      [] OTHER -> LET w == lastTenLines(ScanLines(content.bytes))
                  IN  IF panics(w.lines) THEN Panic
                      ELSE Ok(decodeWindow(w.lines, 0, w.start, traceID, now))

\* printLast10Messages() of main.go and of the service package: what it prints
\* (the raw lines), a missing file being "no messages"
printLast10Messages(content, fault) ==
    CASE openResult(content, fault) = "notexist" -> Ok(<<>>)
      [] openResult(content, fault) = "error" -> Err
      [] OTHER -> Ok(lastTenLines(ScanLines(content.bytes)).lines)

\* printLast10() of the Assignment 1 command line: every open error is returned
printLast10(content, fault) ==
    IF openResult(content, fault) # "ok" THEN Err
    ELSE Ok(lastTenLines(ScanLines(content.bytes)).lines)

----------------------------------------------------------------------------
(* Start values of the variables a specification does not use.             *)

MessagesFileName == "messages.txt"
OtherFileName == "example.txt"
Paths == {MessagesFileName, OtherFileName}

NoResp == [op |-> "none", user |-> <<>>, message |-> <<>>, path |-> "", status |-> 0,
           store |-> "none", fault |-> "none", traceID |-> "", data |-> <<>>]
NoQuery == [op |-> "none", limit |-> 0, fault |-> "none", out |-> [kind |-> "none"]]
NoCodec == [kind |-> "none"]

SystemIdle ==
    /\ fs = [p \in Paths |-> NoFile]
    /\ resp = NoResp
    /\ cleared = FALSE

QueryIdle == qfile = NoFile /\ qres = NoQuery

CodecIdle == cin = [user |-> <<>>, text |-> <<>>, t |-> 0] /\ cout = NoCodec

NoWriters == [kind |-> "none"]
NoConn == [kind |-> "none"]
NoServed == [kind |-> "none"]
NoProc == [kind |-> "none"]

ProcessesIdle == writers = NoWriters /\ conn = NoConn /\ served = NoServed /\ proc = NoProc

----------------------------------------------------------------------------
(* The codec alone: one (user, text, clock) is written by the append path  *)
(* to a fresh messages.txt and the file is read back.                      *)

Alphabet == {"a", ":", " ", "]", CR, NL}
StringsUpTo(n) == UNION {[1..k -> Alphabet] : k \in 0..n}
Clock == 0..MaxClock


CodecInit ==
    /\ cin \in [user : StringsUpTo(MaxUserLen), text : StringsUpTo(MaxTextLen), t : Clock]
    /\ cout = NoCodec
    /\ SystemIdle
    /\ ProcessesIdle
    /\ QueryIdle

\* addMessage(user, text) at clock t, then readMessagesForAPI
WriteThenRead ==
    /\ cout = NoCodec
    /\ cout' = [kind |-> "done",
                read |-> readMessagesForAPI(addMessage(NoFile, cin.user, cin.text, cin.t, "none").content,
                                            "t1", "none", cin.t)]
    /\ UNCHANGED <<cin, fs, resp, cleared, qfile, qres, writers, conn, served, proc>>

CodecNext == WriteThenRead

CodecSpec == CodecInit /\ [][CodecNext]_vars

\* s holds c1 c2 next to each other
hasPair(s, c1, c2) == \E i \in 1..(Len(s) - 1) : s[i] = c1 /\ s[i + 1] = c2
has(s, c) == \E i \in 1..Len(s) : s[i] = c

\* what the round trip is claimed for: a non-empty user without ": " and without
\* a newline, a text without a newline
RoundTripInput ==
    /\ cin.user # <<>>
    /\ ~hasPair(cin.user, ":", " ")
    /\ ~has(cin.user, NL)
    /\ ~has(cin.text, NL)

\* the read gave exactly one message, with the user and the text that were written
RoundTripExact ==
    /\ cout.read.kind = "ok"
    /\ Len(cout.read.messages) = 1
    /\ cout.read.messages[1].user = cin.user
    /\ cout.read.messages[1].message = cin.text

\* C1 as stated: every non-empty user without ": " and newline and every text
\* without newline is recovered exactly from the line the append path wrote.
C1_RoundTripAsStated ==
    (cout.kind = "done" /\ RoundTripInput) => RoundTripExact

\* C1, amended: the same, for texts that moreover do not end in a carriage
\* return (the line scanner takes a final "\r" as part of the end of line).
C1_RoundTrip ==
    (cout.kind = "done" /\ RoundTripInput
        /\ ~(cin.text # <<>> /\ cin.text[Len(cin.text)] = CR))
    => RoundTripExact

\* a text holding ": " and a user and text were recovered from the written line
C1_Witness ==
    /\ cout.kind = "done"
    /\ RoundTripInput
    /\ cin.text = <<":", " ">>
    /\ RoundTripExact

----------------------------------------------------------------------------
(* The read paths alone: each is applied to a messages.txt built from      *)
(* lines of known kinds.                                                   *)

\* a line the append path wrote at position i: user "u", text the two digits of i
validLine(i) ==
    FormatLine(FormatTime(i % 60), <<"u">>, <<Digit((i \div 10) % 10), Digit(i % 10)>>)

\* 22 characters or more with "] " but no ": " after it
noColonLine == <<"[">> \o FormatTime(0) \o <<"]", " ", "u", ":", "x", NL>>

\* the alternate format "user: text", shorter than 22 characters
shortLine == FormatPlainLine(<<"u">>, <<"x">>)

\* 22 characters or more, starting with "] " and holding ": "
bracketFirstLine == <<"]", " ">> \o FormatTime(0) \o <<" ", "u", ":", " ", "x", NL>>

MalformedKinds == {"blank", "short", "nocolon"}
LineKinds == {"valid", "bracketfirst"} \cup MalformedKinds

lineOfKind(kind, i) ==
    CASE kind = "valid" -> validLine(i)
      [] kind = "blank" -> <<NL>>
      [] kind = "short" -> shortLine
      [] kind = "nocolon" -> noColonLine
      [] kind = "bracketfirst" -> bracketFirstLine

\* the bytes of the file whose i-th line is of kind kinds[i]
RECURSIVE bytesOfKinds(_, _)
bytesOfKinds(kinds, i) ==
    IF i > Len(kinds) THEN <<>>
    ELSE lineOfKind(kinds[i], i) \o bytesOfKinds(kinds, i + 1)

SmallFiles ==
    {File(bytesOfKinds(kinds, 1)) : kinds \in UNION {[1..k -> LineKinds] : k \in 0..MaxSmallFile}}

\* LongFileLines lines, all valid but the one at position bad, which is of kind kind
oneBadKinds(bad, kind) == [i \in 1..LongFileLines |-> IF i = bad THEN kind ELSE "valid"]

LongFiles ==
    {File(bytesOfKinds(oneBadKinds(bad, kind), 1)) : bad \in 1..LongFileLines, kind \in MalformedKinds}

QueryInit ==
    /\ qfile \in {NoFile} \cup SmallFiles \cup LongFiles
    /\ qres = NoQuery
    /\ SystemIdle
    /\ ProcessesIdle
    /\ CodecIdle

Query(op, limit, fault, out) == [op |-> op, limit |-> limit, fault |-> fault, out |-> out]

QueryFrame == UNCHANGED <<qfile, fs, resp, cleared, cin, cout, writers, conn, served, proc>>

\* GET /messages and the messages page: readMessagesForAPI
QReadMessagesForAPI(fault) ==
    /\ qres = NoQuery
    /\ qres' = Query("readMessagesForAPI", 0, fault, readMessagesForAPI(qfile, "t1", fault, 0))
    /\ QueryFrame

\* getLastMessages(ctx, limit); the WebSocket handler passes 10
QGetLastMessages(limit, fault) ==
    /\ qres = NoQuery
    /\ qres' = Query("getLastMessages", limit, fault, getLastMessages(qfile, limit, "t1", fault, 0))
    /\ QueryFrame

\* GetLast10 of the gRPC server: readLast10Messages
QReadLast10Messages(fault) ==
    /\ qres = NoQuery
    /\ qres' = Query("readLast10Messages", Last10, fault, readLast10Messages(qfile, "t1", fault, 0))
    /\ QueryFrame

\* printLast10Messages of main.go and of the service package
QPrintLast10Messages(fault) ==
    /\ qres = NoQuery
    /\ qres' = Query("printLast10Messages", Last10, fault, printLast10Messages(qfile, fault))
    /\ QueryFrame

\* printLast10 of the Assignment 1 command line
QPrintLast10(fault) ==
    /\ qres = NoQuery
    /\ qres' = Query("printLast10", Last10, fault, printLast10(qfile, fault))
    /\ QueryFrame

\* webMessagesHandler of main.go: the data the template is executed with,
\* MessagesPageData{Messages, GeneratedAt, TraceID}; a failed read is answered 500
webMessagesHandler(content, traceID, fault, now) ==
    LET read == readMessagesForAPI(content, traceID, fault, now)
    IN  IF read.kind = "ok"
        THEN [kind |-> "ok", messages |-> read.messages, generatedAt |-> FormatTime(now),
              traceID |-> traceID]
        ELSE read

\* GET /web/messages
QWebMessagesHandler(fault) ==
    /\ qres = NoQuery
    /\ qres' = Query("webMessagesHandler", Last10, fault, webMessagesHandler(qfile, "t1", fault, 0))
    /\ QueryFrame

QueryNext ==
    \E fault \in Faults :
        \/ QReadMessagesForAPI(fault)
        \/ \E limit \in (1..MaxLimit) \cup {Last10} : QGetLastMessages(limit, fault)
        \/ QReadLast10Messages(fault)
        \/ QPrintLast10Messages(fault)
        \/ QPrintLast10(fault)
        \/ QWebMessagesHandler(fault)

QuerySpec == QueryInit /\ [][QueryNext]_vars

\* the scanned lines of a file, and the positions of those that decode
linesOf(content) == ScanLines(content.bytes)
decodes(line) == line # <<>> /\ parseMessageLine(line, 1, "", 0).kind = "msg"
decodablePositions(lines) == {i \in 1..Len(lines) : decodes(lines[i])}

\* the k-th smallest of a set of positions
kth(positions, k) ==
    CHOOSE i \in positions : Cardinality({j \in positions : j <= i}) = k

\* message m carries the user and text of this line
carriesLine(m, line) ==
    LET p == parseMessageLine(line, 1, "", 0)
    IN  m.user = p.user /\ m.message = p.message

QueryReturned(op) == qres.op = op /\ qres.out.kind = "ok"

\* C4: getLastMessages(limit) returns the last min(limit, number of decodable
\* lines) messages of the decoded sequence, in file order, oldest first.
C4_LastN ==
    QueryReturned("getLastMessages") =>
        LET got   == qres.out.messages
            lines == linesOf(qfile)
            dec   == decodablePositions(lines)
            m     == Cardinality(dec)
        IN  /\ Len(got) = Min(qres.limit, m)
            /\ \A i \in 1..Len(got) : carriesLine(got[i], lines[kth(dec, m - Len(got) + i)])

\* all three lines of a file decode and the limit 2 cut the result to the last two
C4_Witness ==
    /\ QueryReturned("getLastMessages")
    /\ qres.limit = 2
    /\ decodablePositions(linesOf(qfile)) = {1, 2, 3}
    /\ Len(qres.out.messages) = 2
    /\ carriesLine(qres.out.messages[1], linesOf(qfile)[2])

OneMalformed(content) ==
    /\ content.exists
    /\ LET lines == linesOf(content)
       IN  /\ Len(lines) = LongFileLines
           /\ Cardinality((1..LongFileLines) \ decodablePositions(lines)) = 1

malformedAt(content) ==
    CHOOSE i \in (1..LongFileLines) \ decodablePositions(linesOf(content)) : TRUE

\* the last-10 reads: getLastMessages(ctx, 10) and readLast10Messages
LastTenRead ==
    \/ QueryReturned("getLastMessages") /\ qres.limit = Last10
    \/ QueryReturned("readLast10Messages")

\* C6 as stated: the last 10 of a file of 15 lines with one malformed line are
\* 9 entries, wherever the malformed line is.
C6_NineAsStated ==
    (LastTenRead /\ OneMalformed(qfile)) => Len(qres.out.messages) = Last10 - 1

\* C6, amended: getLastMessages(10) returns the last 10 decoded lines (10 entries
\* of the 14), wherever the malformed line is; readLast10Messages returns the
\* lines that decode among the last 10 lines of the file: 9 when the malformed
\* line is one of them, 10 when it is not.
C6_LastTenOfLongFile ==
    (LastTenRead /\ OneMalformed(qfile)) =>
        LET got   == qres.out.messages
            lines == linesOf(qfile)
            dec   == decodablePositions(lines)
        IN  /\ qres.op = "getLastMessages" =>
                /\ Len(got) = Min(Last10, LongFileLines - 1)
                /\ \A i \in 1..Len(got) :
                       carriesLine(got[i], lines[kth(dec, LongFileLines - 1 - Len(got) + i)])
            /\ qres.op = "readLast10Messages" =>
                Len(got) = Cardinality(dec \cap ((LongFileLines - Last10 + 1)..LongFileLines))

\* the gRPC read of a long file whose malformed line is in the last 10 gave 9
C6_Witness ==
    /\ QueryReturned("readLast10Messages")
    /\ OneMalformed(qfile)
    /\ malformedAt(qfile) > LongFileLines - Last10
    /\ Len(qres.out.messages) = Last10 - 1

\* C7 as stated: with no messages.txt every read path returns the empty
\* sequence with success.
C7_MissingFileReadsEmpty ==
    (qres.op # "none" /\ qres.fault = "none" /\ ~qfile.exists) => qres.out = Ok(<<>>)

\* C13 as stated: on every file GetLast10 of the gRPC server returns the
\* messages getLastMessages(10) returns: same ids, users and texts, same order.
C13_GrpcSameAsLastN ==
    QueryReturned("readLast10Messages")
        => qres.out = getLastMessages(qfile, Last10, "t1", "none", 0)

\* C25 as stated: the messages page is executed with at most 10 messages, the
\* last decoded ones of the file in file order, with the generation time and
\* the identifier of the request.
C25_PageShowsLastTen ==
    QueryReturned("webMessagesHandler") =>
        LET got   == qres.out.messages
            lines == linesOf(qfile)
            dec   == decodablePositions(lines)
            m     == Cardinality(dec)
        IN  /\ Len(got) = Min(Last10, m)
            /\ \A i \in 1..Len(got) : carriesLine(got[i], lines[kth(dec, m - Len(got) + i)])
            /\ qres.out.generatedAt = FormatTime(0)
            /\ qres.out.traceID = "t1"

\* the page is executed with every decoded message of the file
PageShowsAll ==
    QueryReturned("webMessagesHandler") =>
        /\ qres.out.messages = readMessagesForAPI(qfile, "t1", "none", 0).messages
        /\ qres.out.generatedAt = FormatTime(0)
        /\ qres.out.traceID = "t1"

----------------------------------------------------------------------------
(* The application: the adapters of main.go, of the gRPC server and of the *)
(* service package, all on the messages.txt of one working directory.      *)

UserInputs == {<<>>, <<"a">>, <<"a", ":", " ">>}
TextInputs == {<<>>, <<"b">>, <<"b", NL, "c">>}
\* the data of a file-storage request: none, or text that reads as a message line
DataInputs == {<<>>, validLine(1)}
TraceIDs == {"t1"}
\* the readings of the clock while the application runs; the timestamp takes no
\* part in what the adapters do with the file
RequestClock == {0}

M == MessagesFileName

\* the model appends only while messages.txt holds fewer than MaxLines lines
RoomToAppend == Len(ScanLines(fs[M].bytes)) < MaxLines

Response(op, user, message, path, status, store, fault, traceID, data) ==
    [op |-> op, user |-> user, message |-> message, path |-> path, status |-> status,
     store |-> store, fault |-> fault, traceID |-> traceID, data |-> data]

\* the Message a create request answers with; its id is the clock in milliseconds
\* (the model counts them from 2006-01-01 15:04:00)
createdMessage(user, message, t, traceID) ==
    [kind |-> "msg", id |-> (86400 + t) * 1000, user |-> user, message |-> message,
     timestamp |-> FormatTime(t), traceID |-> traceID]

\* the test written with && : only a request with both fields empty is turned away
rejectsBothEmpty(user, message) == user = <<>> /\ message = <<>>

\* if req.User == "" || req.Message == "" { 400 / error }
rejects(user, message) == user = <<>> \/ message = <<>>

\* POST /messages and /api/messages of main.go: createMessageAPI
CreateMessageAPI(badJSON, user, message, t, fault, traceID) ==
    LET refused == badJSON \/ rejects(user, message)
        added   == addMessage(fs[M], user, message, t, fault)
    IN  /\ badJSON => (user = <<>> /\ message = <<>>)
        /\ ~refused => RoomToAppend
        /\ fs' = IF refused THEN fs ELSE [fs EXCEPT ![M] = added.content]
        /\ resp' = IF refused
                   THEN Response("POST /messages", user, message, "", 400, "none", "none", traceID, <<>>)
                   ELSE IF added.err
                   THEN Response("POST /messages", user, message, "", 500, "append", fault, traceID, <<>>)
                   ELSE Response("POST /messages", user, message, "", 201, "append", fault, traceID,
                                 <<createdMessage(user, message, t, traceID)>>)
        /\ cleared' = IF refused \/ added.err THEN cleared ELSE FALSE
        /\ UNCHANGED <<qfile, qres, cin, cout, writers, conn, served, proc>>

\* a getMessagesAPI whose read opens messages.txt with O_CREATE
GetMessagesAPICreating(fault, traceID, now) ==
    LET out == readMessagesForAPI(fs[M], traceID, fault, now)
    IN  /\ resp' = CASE out.kind = "ok" ->
                          Response("GET /messages", <<>>, <<>>, "", 200, "read", fault, traceID, out.messages)
                     [] out.kind = "err" ->
                          Response("GET /messages", <<>>, <<>>, "", 500, "read", fault, traceID, <<>>)
                     [] OTHER ->
                          Response("GET /messages", <<>>, <<>>, "", -1, "read", fault, traceID, <<>>)
        /\ fs' = IF fault = "none" /\ ~fs[M].exists THEN [fs EXCEPT ![M] = File(<<>>)] ELSE fs
        /\ UNCHANGED <<cleared, qfile, qres, cin, cout, writers, conn, served, proc>>

\* GET /messages and /api/messages of main.go: getMessagesAPI.  A panic of the
\* handler ends the connection without a response (status -1).
GetMessagesAPI(fault, traceID, now) ==
    LET out == readMessagesForAPI(fs[M], traceID, fault, now)
    IN  /\ resp' = CASE out.kind = "ok" ->
                          Response("GET /messages", <<>>, <<>>, "", 200, "read", fault, traceID, out.messages)
                     [] out.kind = "err" ->
                          Response("GET /messages", <<>>, <<>>, "", 500, "read", fault, traceID, <<>>)
                     [] OTHER ->
                          Response("GET /messages", <<>>, <<>>, "", -1, "read", fault, traceID, <<>>)
        /\ UNCHANGED <<fs, cleared, qfile, qres, cin, cout, writers, conn, served, proc>>

\* Save of the gRPC server; status is the gRPC code (0 OK, 2 Unknown: an error
\* made with fmt.Errorf)
GrpcSave(user, message, t, fault, traceID) ==
    LET refused == rejects(user, message)
        added   == addMessage(fs[M], user, message, t, fault)
    IN  /\ ~refused => RoomToAppend
        /\ fs' = IF refused THEN fs ELSE [fs EXCEPT ![M] = added.content]
        /\ resp' = IF refused
                   THEN Response("grpc Save", user, message, "", 2, "none", "none", traceID, <<>>)
                   ELSE IF added.err
                   THEN Response("grpc Save", user, message, "", 2, "append", fault, traceID, <<>>)
                   ELSE Response("grpc Save", user, message, "", 0, "append", fault, traceID, <<>>)
        /\ cleared' = IF refused \/ added.err THEN cleared ELSE FALSE
        /\ UNCHANGED <<qfile, qres, cin, cout, writers, conn, served, proc>>

\* GetLast10 of the gRPC server; a panic ends the server process (status -1)
GrpcGetLast10(fault, traceID, now) ==
    LET out == readLast10Messages(fs[M], traceID, fault, now)
    IN  /\ resp' = CASE out.kind = "ok" ->
                          Response("grpc GetLast10", <<>>, <<>>, "", 0, "read", fault, traceID, out.messages)
                     [] out.kind = "err" ->
                          Response("grpc GetLast10", <<>>, <<>>, "", 2, "read", fault, traceID, <<>>)
                     [] OTHER ->
                          Response("grpc GetLast10", <<>>, <<>>, "", -1, "read", fault, traceID, <<>>)
        /\ UNCHANGED <<fs, cleared, qfile, qres, cin, cout, writers, conn, served, proc>>

\* a handleCLIOperations that looks at -user and -message before -clear
HandleCLIOperationsMessageFirst(clear, user, message, t, fault) ==
    LET wiped   == clearMessages(fs[M], fault)
        added   == addMessage(fs[M], user, message, t, fault)
        printed == printLast10Messages(added.content, fault)
    IN  IF user # <<>> /\ message # <<>>
        THEN /\ RoomToAppend
             /\ fs' = [fs EXCEPT ![M] = added.content]
             /\ resp' = Response("cli", user, message, "", IF added.err THEN 1 ELSE 0,
                                 "append", fault, "",
                                 IF printed.kind = "ok" THEN printed.messages ELSE <<>>)
             /\ cleared' = IF added.err THEN cleared ELSE FALSE
             /\ UNCHANGED <<qfile, qres, cin, cout, writers, conn, served, proc>>
        ELSE IF clear
        THEN /\ fs' = [fs EXCEPT ![M] = wiped.content]
             /\ resp' = Response("cli", user, message, "", IF wiped.err THEN 1 ELSE 0,
                                 "truncate", fault, "", <<>>)
             /\ cleared' = IF wiped.err THEN cleared ELSE TRUE
             /\ UNCHANGED <<qfile, qres, cin, cout, writers, conn, served, proc>>
        ELSE /\ resp' = Response("cli", user, message, "", 2, "none", "none", "", <<>>)
             /\ UNCHANGED <<fs, cleared, qfile, qres, cin, cout, writers, conn, served, proc>>

\* handleCLIOperations of main.go without -storage-demo: -clear comes first, then
\* -user and -message; status 0: done, 1: an error was printed, 2: the usage was printed.
\* The error of addMessage is not looked at; printLast10Messages runs after it.
HandleCLIOperations(clear, user, message, t, fault) ==
    LET wiped   == clearMessages(fs[M], fault)
        added   == addMessage(fs[M], user, message, t, fault)
        printed == printLast10Messages(added.content, fault)
    IN  IF clear
        THEN /\ fs' = [fs EXCEPT ![M] = wiped.content]
             /\ resp' = Response("cli", user, message, "", IF wiped.err THEN 1 ELSE 0,
                                 "truncate", fault, "", <<>>)
             /\ cleared' = IF wiped.err THEN cleared ELSE TRUE
             /\ UNCHANGED <<qfile, qres, cin, cout, writers, conn, served, proc>>
        ELSE IF user # <<>> /\ message # <<>>
        THEN /\ RoomToAppend
             /\ fs' = [fs EXCEPT ![M] = added.content]
             /\ resp' = Response("cli", user, message, "", IF added.err THEN 1 ELSE 0,
                                 "append", fault, "",
                                 IF printed.kind = "ok" THEN printed.messages ELSE <<>>)
             /\ cleared' = IF added.err THEN cleared ELSE FALSE
             /\ UNCHANGED <<qfile, qres, cin, cout, writers, conn, served, proc>>
        ELSE /\ resp' = Response("cli", user, message, "", 2, "none", "none", "", <<>>)
             /\ UNCHANGED <<fs, cleared, qfile, qres, cin, cout, writers, conn, served, proc>>

\* runAssignment1 of the service package: -clear first, then both flags are
\* required; the line is written in the format "user: message".  status 0: nil
\* returned, 1: an error returned.
RunAssignment1(clear, user, message, fault) ==
    LET wiped   == clearMessages(fs[M], fault)
        added   == appendMessage(fs[M], user, message, fault)
        printed == printLast10Messages(added.content, fault)
    IN  IF clear
        THEN /\ fs' = [fs EXCEPT ![M] = wiped.content]
             /\ resp' = Response("assignment1", user, message, "", IF wiped.err THEN 1 ELSE 0,
                                 "truncate", fault, "", <<>>)
             /\ cleared' = IF wiped.err THEN cleared ELSE TRUE
             /\ UNCHANGED <<qfile, qres, cin, cout, writers, conn, served, proc>>
        ELSE IF rejects(user, message)
        THEN /\ resp' = Response("assignment1", user, message, "", 1, "none", "none", "", <<>>)
             /\ UNCHANGED <<fs, cleared, qfile, qres, cin, cout, writers, conn, served, proc>>
        ELSE /\ RoomToAppend
             /\ fs' = [fs EXCEPT ![M] = added.content]
             /\ resp' = Response("assignment1", user, message, "", IF added.err THEN 1 ELSE 0,
                                 "append", fault, "",
                                 IF printed.kind = "ok" THEN printed.messages ELSE <<>>)
             /\ cleared' = IF added.err THEN cleared ELSE FALSE
             /\ UNCHANGED <<qfile, qres, cin, cout, writers, conn, served, proc>>

\* a fileStorageHandler without the test of req.Data: empty data is saved
FileStorageHandlerSavingEmpty(method, path, data, action, fault, traceID) ==
    LET saved  == SaveData(fs[path], data, fault)
        loaded == ReadData(fs[path], fault)
        Answer(status, store, body) ==
            Response("/api/files " \o action, <<>>, <<>>, path, status, store,
                     IF store = "none" THEN "none" ELSE fault, traceID, body)
    IN  IF method # "POST" THEN
             /\ resp' = Answer(405, "none", <<>>)
             /\ UNCHANGED <<fs, cleared, qfile, qres, cin, cout, writers, conn, served, proc>>
        ELSE IF path = "" \/ action = "" THEN
             /\ resp' = Answer(400, "none", <<>>)
             /\ UNCHANGED <<fs, cleared, qfile, qres, cin, cout, writers, conn, served, proc>>
        ELSE IF action = "save" THEN
             /\ fs' = [fs EXCEPT ![path] = saved.content]
             /\ resp' = Answer(IF saved.err THEN 500 ELSE 200, "save", <<>>)
             /\ UNCHANGED <<cleared, qfile, qres, cin, cout, writers, conn, served, proc>>
        ELSE IF action = "read" THEN
             /\ resp' = Answer(IF loaded.err THEN 500 ELSE 200, "load", loaded.data)
             /\ UNCHANGED <<fs, cleared, qfile, qres, cin, cout, writers, conn, served, proc>>
        ELSE /\ resp' = Answer(400, "none", <<>>)
             /\ UNCHANGED <<fs, cleared, qfile, qres, cin, cout, writers, conn, served, proc>>

\* POST /api/files of main.go: fileStorageHandler with a well-formed JSON body
FileStorageHandler(method, path, data, action, fault, traceID) ==
    LET saved  == SaveData(fs[path], data, fault)
        loaded == ReadData(fs[path], fault)
        Answer(status, store, body) ==
            Response("/api/files " \o action, <<>>, <<>>, path, status, store,
                     IF store = "none" THEN "none" ELSE fault, traceID, body)
    IN  IF method # "POST" THEN
             /\ resp' = Answer(405, "none", <<>>)
             /\ UNCHANGED <<fs, cleared, qfile, qres, cin, cout, writers, conn, served, proc>>
        ELSE IF path = "" \/ action = "" THEN
             /\ resp' = Answer(400, "none", <<>>)
             /\ UNCHANGED <<fs, cleared, qfile, qres, cin, cout, writers, conn, served, proc>>
        ELSE IF action = "save" /\ data = <<>> THEN
             /\ resp' = Answer(400, "none", <<>>)
             /\ UNCHANGED <<fs, cleared, qfile, qres, cin, cout, writers, conn, served, proc>>
        ELSE IF action = "save" THEN
             /\ fs' = [fs EXCEPT ![path] = saved.content]
             /\ resp' = Answer(IF saved.err THEN 500 ELSE 200, "save", <<>>)
             /\ UNCHANGED <<cleared, qfile, qres, cin, cout, writers, conn, served, proc>>
        ELSE IF action = "read" THEN
             /\ resp' = Answer(IF loaded.err THEN 500 ELSE 200, "load", loaded.data)
             /\ UNCHANGED <<fs, cleared, qfile, qres, cin, cout, writers, conn, served, proc>>
        ELSE /\ resp' = Answer(400, "none", <<>>)
             /\ UNCHANGED <<fs, cleared, qfile, qres, cin, cout, writers, conn, served, proc>>

\* POST /messages of the service package: Handler.createMessage, which answers
\* 201 without a store behind it
ServiceCreateMessage(badJSON, user, message, t, traceID) ==
    LET refused == badJSON \/ rejects(user, message)
    IN  /\ badJSON => (user = <<>> /\ message = <<>>)
        /\ resp' = IF refused
                   THEN Response("service POST /messages", user, message, "", 400, "none", "none", traceID, <<>>)
                   ELSE Response("service POST /messages", user, message, "", 201, "none", "none", traceID,
                                 <<createdMessage(user, message, t, traceID)>>)
        /\ UNCHANGED <<fs, cleared, qfile, qres, cin, cout, writers, conn, served, proc>>

\* GET /messages of the service package: Handler.getMessages, an empty list
ServiceGetMessages(traceID) ==
    /\ resp' = Response("service GET /messages", <<>>, <<>>, "", 200, "none", "none", traceID, <<>>)
    /\ UNCHANGED <<fs, cleared, qfile, qres, cin, cout, writers, conn, served, proc>>

Init == SystemIdle /\ QueryIdle /\ CodecIdle /\ ProcessesIdle

Next ==
    \/ \E badJSON \in BOOLEAN, user \in UserInputs, message \in TextInputs, t \in RequestClock,
          fault \in Faults, traceID \in TraceIDs :
            CreateMessageAPI(badJSON, user, message, t, fault, traceID)
    \/ \E fault \in Faults, traceID \in TraceIDs, now \in RequestClock :
            GetMessagesAPI(fault, traceID, now)
    \/ \E user \in UserInputs, message \in TextInputs, t \in RequestClock, fault \in Faults,
          traceID \in TraceIDs :
            GrpcSave(user, message, t, fault, traceID)
    \/ \E fault \in Faults, traceID \in TraceIDs, now \in RequestClock :
            GrpcGetLast10(fault, traceID, now)
    \/ \E clear \in BOOLEAN, user \in UserInputs, message \in TextInputs, t \in RequestClock,
          fault \in Faults :
            HandleCLIOperations(clear, user, message, t, fault)
    \/ \E clear \in BOOLEAN, user \in UserInputs, message \in TextInputs, fault \in Faults :
            RunAssignment1(clear, user, message, fault)
    \/ \E method \in {"POST", "GET"}, path \in Paths \cup {""}, data \in DataInputs,
          action \in {"", "save", "read", "delete"}, fault \in Faults, traceID \in TraceIDs :
            FileStorageHandler(method, path, data, action, fault, traceID)
    \/ \E badJSON \in BOOLEAN, user \in UserInputs, message \in TextInputs, t \in RequestClock,
          traceID \in TraceIDs :
            ServiceCreateMessage(badJSON, user, message, t, traceID)
    \/ \E traceID \in TraceIDs :
            ServiceGetMessages(traceID)

Spec == Init /\ [][Next]_vars

----------------------------------------------------------------------------
(* Properties of the application.                                          *)

\* an entry of a returned array with this user and this message
shows(data, user, message) ==
    \E i \in 1..Len(data) : data[i].user = user /\ data[i].message = message

created(r, op) == r.op = op /\ r.status = 201
listed(r, op) == r.op = op /\ r.status = 200

\* C2 as stated, for the GET that directly follows the POST: after a POST
\* /messages answered 201 with user u and message m, the array a GET /messages
\* returns holds an entry with user u and message m.
C2_PostThenGet ==
    [][/\ (created(resp, "POST /messages") /\ listed(resp', "GET /messages"))
            => shows(resp'.data, resp.user, resp.message)
       /\ (created(resp, "service POST /messages") /\ listed(resp', "service GET /messages"))
            => shows(resp'.data, resp.user, resp.message)]_vars

WriteRequests == {"POST /messages", "service POST /messages", "grpc Save"}

\* C3: a write request with an empty user or an empty message is turned away
\* before any store call: POST /messages answers 400, gRPC Save returns an
\* error, and every file is left exactly as it was.
C3_EmptyRejected ==
    [][(resp'.op \in WriteRequests /\ (resp'.user = <<>> \/ resp'.message = <<>>))
            => /\ fs' = fs
               /\ resp'.store = "none"
               /\ resp'.data = <<>>
               /\ resp'.status = IF resp'.op = "grpc Save" THEN 2 ELSE 400]_vars

\* a POST /messages with an empty user was answered 400 while messages.txt held a line
C3_Witness ==
    /\ resp.op = "POST /messages"
    /\ resp.user = <<>>
    /\ resp.message # <<>>
    /\ resp.status = 400
    /\ fs[M].exists
    /\ Len(ScanLines(fs[M].bytes)) > 0

\* every read of the query layer on this file, the store answering
readsEmpty(content) ==
    /\ readMessagesForAPI(content, "t1", "none", 0) = Ok(<<>>)
    /\ getLastMessages(content, Last10, "t1", "none", 0) = Ok(<<>>)
    /\ readLast10Messages(content, "t1", "none", 0) = Ok(<<>>)
    /\ printLast10Messages(content, "none") = Ok(<<>>)

\* C8 as stated: a clear succeeds whether or not messages.txt exists (the store
\* answering), and from a clear until the next append every read returns the
\* empty sequence.
C8_ClearThenEmpty ==
    /\ (resp.store = "truncate" /\ resp.fault = "none") => resp.status = 0
    /\ cleared => readsEmpty(fs[M])

appended(r) == r.store = "append" /\ r.fault = "none"

\* C9 as stated: a successful append extends messages.txt by exactly one line
\* ended by a newline; the lines stored before keep their text and position
\* and the number of lines grows by one.
C9_AppendOneLine ==
    [][appended(resp') =>
            LET old == ScanLines(fs[M].bytes)
                new == ScanLines(fs'[M].bytes)
            IN  /\ Len(new) = Len(old) + 1
                /\ SubSeq(new, 1, Len(old)) = old
                /\ fs'[M].bytes[Len(fs'[M].bytes)] = NL]_vars

isPrefix(s, t) == Len(s) <= Len(t) /\ SubSeq(t, 1, Len(s)) = s

\* C10 as stated: whatever the application does, the bytes of messages.txt stay
\* where they are and the file stays; only a clear removes them.
C10_AppendOnly ==
    [][\/ resp'.store = "truncate"
       \/ /\ isPrefix(fs[M].bytes, fs'[M].bytes)
          /\ fs[M].exists => fs'[M].exists]_vars

\* the adapter that served the last request
HTTPOps == {"POST /messages", "GET /messages", "/api/files save", "/api/files read",
            "/api/files ", "/api/files delete", "service POST /messages", "service GET /messages"}
GrpcOps == {"grpc Save", "grpc GetLast10"}
CommandLineOps == {"cli", "assignment1"}

Succeeded == resp.status \in {0, 200, 201}
\* the request was turned away before any store operation
InputRefused == resp.op # "none" /\ resp.store = "none" /\ ~Succeeded
\* the store operation of the request failed
StoreFailed == resp.store # "none" /\ resp.fault = "denied"

\* a client-error outcome: HTTP 4xx, a gRPC code that blames the request
\* (InvalidArgument 3, FailedPrecondition 9, OutOfRange 11), the usage text
ClientError ==
    \/ resp.op \in HTTPOps /\ resp.status \in 400..499
    \/ resp.op \in GrpcOps /\ resp.status \in {3, 9, 11}
    \/ resp.op \in CommandLineOps /\ resp.status = 2
\* a server-error outcome: HTTP 5xx, a gRPC code that blames the server
\* (Unknown 2, Internal 13, Unavailable 14), an error printed or returned
ServerError ==
    \/ resp.op \in HTTPOps /\ resp.status \in 500..599
    \/ resp.op \in GrpcOps /\ resp.status \in {2, 13, 14}
    \/ resp.op \in CommandLineOps /\ resp.status = 1

\* C18 as stated: in every adapter an input turned away gives a client-error
\* outcome and a failed store operation a server-error outcome.
C18_ErrorClasses ==
    /\ InputRefused => ClientError
    /\ StoreFailed => ServerError

\* the HTTP adapters alone keep the two classes apart
HTTPErrorClasses ==
    resp.op \in HTTPOps => /\ InputRefused => ClientError
                           /\ StoreFailed => ServerError

----------------------------------------------------------------------------
(* The decoder alone: parseMessageLine is applied to one line, and the     *)
(* read paths to a messages.txt holding that line followed by a line in    *)
(* the written format.                                                     *)

\* the clock reading in the timestamp of the lines handed to the decoder
StampedAt == 30

\* how the lines begin: a timestamp in the written format, one with "T" for
\* the blank, two characters, nothing, and "] " in front of a timestamp
LineHeads ==
    {<<"[">> \o FormatTime(StampedAt),
     <<"[">> \o [FormatTime(StampedAt) EXCEPT ![11] = "T"],
     <<"[", "x">>,
     <<>>,
     <<"]", " ">> \o FormatTime(StampedAt)}

\* how they end
TailAlphabet == {"a", ":", " ", "]"}
LineTails == UNION {[1..k -> TailAlphabet] : k \in 0..MaxTailLen}

\* the line in the written format that follows in the file
followingLine == validLine(1)

DecodeInit ==
    /\ cin \in {[line |-> h \o t, now |-> n] : h \in LineHeads, t \in LineTails, n \in Clock}
    /\ cout = NoCodec
    /\ SystemIdle
    /\ ProcessesIdle
    /\ QueryIdle

\* parseMessageLine(line, 1, traceID); readMessagesForAPI and readLast10Messages
\* on the file of the line and the following line
Decode ==
    /\ cout = NoCodec
    /\ cin.line # <<>>
    /\ LET content == File(cin.line \o <<NL>> \o followingLine)
       IN  cout' = [kind   |-> "decoded",
                    parsed |-> parseMessageLine(cin.line, 1, "t1", cin.now),
                    read   |-> readMessagesForAPI(content, "t1", "none", cin.now),
                    grpc   |-> readLast10Messages(content, "t1", "none", cin.now)]
    /\ UNCHANGED <<cin, fs, resp, cleared, qfile, qres, writers, conn, served, proc>>

DecodeNext == Decode

DecodeSpec == DecodeInit /\ [][DecodeNext]_vars

\* the first "] " of the line, counted from 1 (0: none)
firstBracket(line) ==
    LET hits == {i \in 1..(Len(line) - 1) : line[i] = "]" /\ line[i + 1] = " "}
    IN  IF hits = {} THEN 0 ELSE CHOOSE i \in hits : \A j \in hits : i <= j

\* a ": " stands after the first "] "
colonAfterBracket(line) ==
    \E j \in (firstBracket(line) + 2)..(Len(line) - 1) : line[j] = ":" /\ line[j + 1] = " "

\* what the following line alone gives, as the id-th decoded or physical line
followingMessage(id) == parseMessageLine(ScanLines(followingLine)[1], id, "t1", 0)

\* C11: a line shorter than 22 characters, or without "] ", or without ": "
\* after the first "] ", makes parseMessageLine return nil; the reads return
\* without error and without the line, the rest of the file being there.
C11_NilDropsLine ==
    (cout.kind = "decoded"
        /\ (\/ Len(cin.line) < 22
            \/ firstBracket(cin.line) = 0
            \/ ~colonAfterBracket(cin.line)))
    => /\ cout.parsed = Nil
       /\ cout.read = Ok(<<followingMessage(1)>>)
       /\ cout.grpc = Ok(<<followingMessage(2)>>)

\* a line of 22 characters or more with "] " and no ": " after it was dropped
C11_Witness ==
    /\ cout.kind = "decoded"
    /\ Len(cin.line) >= 22
    /\ firstBracket(cin.line) > 1
    /\ ~colonAfterBracket(cin.line)
    /\ cout.parsed = Nil
    /\ cout.read = Ok(<<followingMessage(1)>>)

\* the timestamp segment of the line: what stands between its first character
\* and the first "] "
timestampSegment(line) == SubSeq(line, 2, firstBracket(line) - 1)

\* the line has its delimiters and a timestamp segment that does not parse
GarbledTimestamp(line) ==
    /\ Len(line) >= 22
    /\ firstBracket(line) > 1
    /\ colonAfterBracket(line)
    /\ ~timeParses(timestampSegment(line))

\* user and text of the line: between the first "] " and the first ": " after
\* it, and after that ": "
firstColon(line) ==
    CHOOSE j \in (firstBracket(line) + 2)..(Len(line) - 1) :
        /\ line[j] = ":" /\ line[j + 1] = " "
        /\ \A k \in (firstBracket(line) + 2)..(j - 1) : ~(line[k] = ":" /\ line[k + 1] = " ")
userOf(line) == SubSeq(line, firstBracket(line) + 2, firstColon(line) - 1)
textOf(line) == SubSeq(line, firstColon(line) + 2, Len(line))

\* C12: a line with its delimiters whose timestamp segment does not parse is
\* decoded with user and text intact and the current time as timestamp; in a
\* read it takes an id like any decoded line and the read does not fail.
C12_TimestampFallback ==
    (cout.kind = "decoded" /\ GarbledTimestamp(cin.line))
    => /\ cout.parsed.kind = "msg"
       /\ cout.parsed.user = userOf(cin.line)
       /\ cout.parsed.message = textOf(cin.line)
       /\ cout.parsed.timestamp = FormatTime(cin.now)
       /\ cout.read = Ok(<<cout.parsed, followingMessage(2)>>)

\* the line with "T" in its timestamp was decoded with user "a" and given id 1
C12_Witness ==
    /\ cout.kind = "decoded"
    /\ GarbledTimestamp(cin.line)
    /\ cin.line[12] = "T"
    /\ cout.parsed.kind = "msg"
    /\ cout.parsed.user = <<"a">>
    /\ cout.parsed.timestamp = FormatTime(cin.now)
    /\ Len(cout.read.messages) = 2

----------------------------------------------------------------------------
(* Concurrent appends: two writers run addMessage (main.go) or saveMessage *)
(* (gRPC server) on the same messages.txt, one system call at a time.      *)

Writers == {1, 2}
WriterAdapters == {"main", "grpc"}
WriterUser(w) == IF w = 1 THEN <<"a">> ELSE <<"c">>
WriterTexts == {<<"b">>, <<"b", NL, "c">>}
StartFiles == {NoFile, File(<<>>), File(validLine(1))}

AppendInit ==
    /\ \E file0 \in StartFiles, text \in [Writers -> WriterTexts], t \in [Writers -> Clock],
          adapter \in [Writers -> WriterAdapters] :
            /\ fs = [p \in Paths |-> IF p = M THEN file0 ELSE NoFile]
            /\ writers = [kind  |-> "appending",
                          file0 |-> file0,
                          proc  |-> [w \in Writers |->
                                        [pc |-> "start", adapter |-> adapter[w],
                                         user |-> WriterUser(w), text |-> text[w], t |-> t[w]]]]
    /\ resp = NoResp
    /\ cleared = FALSE
    /\ conn = NoConn
    /\ served = NoServed
    /\ proc = NoProc
    /\ QueryIdle
    /\ CodecIdle

WriterAt(w, pc) == writers.kind = "appending" /\ writers.proc[w].pc = pc
WriterTo(w, pc) == writers' = [writers EXCEPT !.proc[w].pc = pc]
AppendFrame == UNCHANGED <<resp, cleared, qfile, qres, cin, cout, conn, served, proc>>

\* f, err := os.OpenFile(messagesFileName, os.O_APPEND|os.O_CREATE|os.O_WRONLY, 0644):
\* a missing file is created; on an error the writer returns it
WriterOpen(w, fault) ==
    /\ WriterAt(w, "start")
    /\ IF fault = "denied"
       THEN WriterTo(w, "failed") /\ UNCHANGED fs
       ELSE WriterTo(w, "opened") /\ fs' = [fs EXCEPT ![M] = File(fs[M].bytes)]
    /\ AppendFrame

\* the line the writer formats
WriterLine(w) ==
    FormatLine(FormatTime(writers.proc[w].t), writers.proc[w].user, writers.proc[w].text)

\* _, err = f.WriteString(line): one write on a descriptor opened with O_APPEND,
\* which the kernel places at the end of the file as one operation
WriterWrite(w) ==
    /\ WriterAt(w, "opened")
    /\ WriterTo(w, "written")
    /\ fs' = [fs EXCEPT ![M] = appendBytes(fs[M], WriterLine(w))]
    /\ AppendFrame

\* defer f.Close(); return nil
WriterClose(w) ==
    /\ WriterAt(w, "written")
    /\ WriterTo(w, "done")
    /\ UNCHANGED fs
    /\ AppendFrame

AppendNext ==
    \/ \E w \in Writers, fault \in Faults : WriterOpen(w, fault)
    \/ \E w \in Writers : WriterWrite(w)
    \/ \E w \in Writers : WriterClose(w)

AppendSpec == AppendInit /\ [][AppendNext]_vars

BothAppended == writers.kind = "appending" /\ \A w \in Writers : writers.proc[w].pc = "done"

\* the file is what it was, followed by the two written lines in one of the two orders
BothLinesIntact ==
    fs[M].bytes \in {writers.file0.bytes \o WriterLine(1) \o WriterLine(2),
                     writers.file0.bytes \o WriterLine(2) \o WriterLine(1)}

\* C14 as stated: after two concurrent appends the file holds both written
\* lines intact, in one order or the other, and every line of the file decodes.
C14_ConcurrentAppends ==
    BothAppended =>
        /\ BothLinesIntact
        /\ \A i \in 1..Len(ScanLines(fs[M].bytes)) : decodes(ScanLines(fs[M].bytes)[i])

\* the part of C14 about the interleavings alone
AppendsNeverInterleave == BothAppended => BothLinesIntact

----------------------------------------------------------------------------
(* Trace identifiers.  The requests of one run of the servers: an HTTP     *)
(* request is taken through the middleware and then, in a later step,      *)
(* through its handler; a gRPC method draws its identifier itself.         *)

\* at most MaxRequests requests arrive in one run
MaxRequests == 2

\* the empty string
NoTrace == <<>>

\* uuid.New().String(): the text of the n-th value of the random source
uuidNew(n) == <<"#", Digit(n)>>

\* the key a value is put under in a context: its type and its name
StringKey == <<"string", "traceID">>
CtxKey == <<"types.CtxKey", "traceID">>

\* context.WithValue(r.Context(), key, traceID)
withValue(key, value) == [key |-> key, value |-> value]

\* a lookup that finds nothing, as with a key of another type
ctxValueMissed(ctx, key) == NoTrace

\* traceID, _ := r.Context().Value(key).(string): the value under a key of the
\* same type and name, or ""
ctxValue(ctx, key) == IF ctx.key = key THEN ctx.value ELSE NoTrace

MainRoutes == {"POST /messages", "GET /messages", "PUT /messages", "GET /web/messages",
               "POST /api/files", "GET /health", "GET /ws"}
ServiceRoutes == {"service POST /messages", "service GET /messages", "service GET /health"}
HTTPRoutes == MainRoutes \cup ServiceRoutes
GrpcMethods == {"grpc Save", "grpc GetLast10"}

keyOf(route) == IF route \in ServiceRoutes THEN CtxKey ELSE StringKey

\* What the caller receives.  kind: "json" (respondWithSuccess / respondWithError),
\* "text" (http.Error), "html" (the executed template), "frames" (an upgraded
\* connection), "grpc".  header: the X-Trace-ID header received (NoTrace: none).
\* traceID: the TraceID of the encoded Response or page data (NoTrace: none).
\* messages: the messages sent.  failed: an error response.
Reply(kind, status, header, traceID, messages, failed) ==
    [kind |-> kind, status |-> status, header |-> header, traceID |-> traceID,
     messages |-> messages, failed |-> failed]
NoReply == [kind |-> "none", status |-> 0, header |-> NoTrace, traceID |-> NoTrace,
            messages |-> <<>>, failed |-> FALSE]

respondWithSuccess(header, statusCode, messages, traceID) ==
    Reply("json", statusCode, header, traceID, messages, FALSE)
respondWithError(header, statusCode, traceID) ==
    Reply("json", statusCode, header, traceID, <<>>, TRUE)
\* http.Error(w, "Internal Server Error", code): the headers set on w go with it
httpError(header, statusCode) == Reply("text", statusCode, header, NoTrace, <<>>, TRUE)

TraceUsers == {<<>>, <<"a">>}
TraceText == <<"b">>
FileActions == {"save", "read", "other"}

TraceInit ==
    /\ fs \in {[p \in Paths |-> IF p = M THEN f ELSE NoFile] : f \in {NoFile, File(validLine(1))}}
    /\ resp = NoResp
    /\ cleared = FALSE
    /\ QueryIdle
    /\ CodecIdle
    /\ writers = NoWriters
    /\ conn = NoConn
    /\ served = [kind |-> "serving", drawn |-> 0, reqs |-> <<>>]
    /\ proc = NoProc

TraceFrame == UNCHANGED <<resp, cleared, qfile, qres, cin, cout, writers, conn, proc>>

InHandler(i, routes) ==
    /\ i \in 1..Len(served.reqs)
    /\ served.reqs[i].pc = "handler"
    /\ served.reqs[i].route \in routes

\* the handler returns: request i has its response
Responded(i, out) ==
    served' = [served EXCEPT !.reqs[i].pc = "responded", !.reqs[i].out = out]

\* traceMiddleware of main.go and TraceMiddleware of the service: the identifier
\* is drawn, put in the context and set as the X-Trace-ID of w; then next(w, r)
TraceMiddleware(route) ==
    LET traceID == uuidNew(served.drawn)
    IN  /\ Len(served.reqs) < MaxRequests
        /\ served' = [served EXCEPT
                        !.drawn = @ + 1,
                        !.reqs = Append(@, [route |-> route, pc |-> "handler",
                                            trace |-> traceID,
                                            ctx |-> withValue(keyOf(route), traceID),
                                            header |-> traceID, out |-> NoReply])]
        /\ UNCHANGED fs
        /\ TraceFrame

\* messagesAPIHandler of main.go with createMessageAPI and getMessagesAPI
ServeMessagesAPI(i, user, fault) ==
    LET r       == served.reqs[i]
        traceID == ctxValue(r.ctx, StringKey)
        added   == addMessage(fs[M], user, TraceText, 0, fault)
        read    == readMessagesForAPI(fs[M], traceID, fault, 0)
    IN  /\ InHandler(i, {"POST /messages", "GET /messages", "PUT /messages"})
        /\ CASE r.route = "POST /messages" ->
                  IF rejects(user, TraceText)
                  THEN Responded(i, respondWithError(r.header, 400, traceID)) /\ UNCHANGED fs
                  ELSE IF added.err
                  THEN Responded(i, respondWithError(r.header, 500, traceID)) /\ UNCHANGED fs
                  ELSE /\ Responded(i, respondWithSuccess(r.header, 201,
                                        <<createdMessage(user, TraceText, 0, traceID)>>, traceID))
                       /\ fs' = [fs EXCEPT ![M] = added.content]
             [] r.route = "GET /messages" ->
                  /\ user = <<>>
                  /\ UNCHANGED fs
                  /\ IF read.kind = "ok"
                     THEN Responded(i, respondWithSuccess(r.header, 200, read.messages, traceID))
                     ELSE Responded(i, respondWithError(r.header, 500, traceID))
             [] OTHER ->
                  /\ user = <<>> /\ fault = "none"
                  /\ UNCHANGED fs
                  /\ Responded(i, respondWithError(r.header, 405, traceID))
        /\ TraceFrame

\* webMessagesHandler of main.go
ServeWebMessages(i, fault) ==
    LET r       == served.reqs[i]
        traceID == ctxValue(r.ctx, StringKey)
        read    == readMessagesForAPI(fs[M], traceID, fault, 0)
    IN  /\ InHandler(i, {"GET /web/messages"})
        /\ IF read.kind = "ok"
           THEN Responded(i, Reply("html", 200, r.header, traceID, read.messages, FALSE))
           ELSE Responded(i, httpError(r.header, 500))
        /\ UNCHANGED fs
        /\ TraceFrame

\* fileStorageHandler of main.go on example.txt
ServeFiles(i, action, fault) ==
    LET r       == served.reqs[i]
        traceID == ctxValue(r.ctx, StringKey)
        saved   == SaveData(fs[OtherFileName], <<"x">>, fault)
        read    == ReadData(fs[OtherFileName], fault)
    IN  /\ InHandler(i, {"POST /api/files"})
        /\ CASE action = "save" ->
                  IF saved.err
                  THEN Responded(i, respondWithError(r.header, 500, traceID)) /\ UNCHANGED fs
                  ELSE /\ Responded(i, respondWithSuccess(r.header, 200, <<>>, traceID))
                       /\ fs' = [fs EXCEPT ![OtherFileName] = saved.content]
             [] action = "read" ->
                  /\ UNCHANGED fs
                  /\ IF read.err
                     THEN Responded(i, respondWithError(r.header, 500, traceID))
                     ELSE Responded(i, respondWithSuccess(r.header, 200, <<>>, traceID))
             [] OTHER ->
                  /\ fault = "none"
                  /\ UNCHANGED fs
                  /\ Responded(i, respondWithError(r.header, 400, traceID))
        /\ TraceFrame

\* healthHandler of main.go
ServeHealth(i) ==
    LET r       == served.reqs[i]
        traceID == ctxValue(r.ctx, StringKey)
    IN  /\ InHandler(i, {"GET /health"})
        /\ Responded(i, respondWithSuccess(r.header, 200, <<>>, traceID))
        /\ UNCHANGED fs
        /\ TraceFrame

\* websocketHandler of main.go.  A refused upgrade is answered through w; an
\* accepted one is answered on the taken-over connection, by a handshake that
\* holds the headers handed to Upgrade (nil) and none of those set on w.
ServeWebSocket(i, upgraded, fault) ==
    LET r       == served.reqs[i]
        traceID == ctxValue(r.ctx, StringKey)
        read    == getLastMessages(fs[M], Last10, traceID, fault, 0)
    IN  /\ InHandler(i, {"GET /ws"})
        /\ IF ~upgraded
           THEN fault = "none" /\ Responded(i, httpError(r.header, 400))
           ELSE IF read.kind = "ok"
           THEN Responded(i, Reply("frames", 101, NoTrace, NoTrace, read.messages, FALSE))
           ELSE Responded(i, Reply("frames", 101, NoTrace, NoTrace, <<>>, TRUE))
        /\ UNCHANGED fs
        /\ TraceFrame

\* MessagesHandler and HealthHandler of the service: nothing is stored or read
ServeService(i, user) ==
    LET r       == served.reqs[i]
        traceID == ctxValue(r.ctx, CtxKey)
    IN  /\ InHandler(i, ServiceRoutes)
        /\ CASE r.route = "service POST /messages" ->
                  IF rejects(user, TraceText)
                  THEN Responded(i, respondWithError(r.header, 400, traceID))
                  ELSE Responded(i, respondWithSuccess(r.header, 201,
                                      <<createdMessage(user, TraceText, 0, traceID)>>, traceID))
             [] OTHER ->
                  /\ user = <<>>
                  /\ Responded(i, respondWithSuccess(r.header, 200, <<>>, traceID))
        /\ UNCHANGED fs
        /\ TraceFrame

\* a gRPC method is called: it draws the identifier itself and returns at once
GrpcCalled(method, traceID, out) ==
    /\ Len(served.reqs) < MaxRequests
    /\ served' = [served EXCEPT
                    !.drawn = @ + 1,
                    !.reqs = Append(@, [route |-> method, pc |-> "responded",
                                        trace |-> traceID,
                                        ctx |-> withValue(StringKey, traceID),
                                        header |-> NoTrace, out |-> out])]

\* Save of the gRPC server: an error is fmt.Errorf(...), the answer an Empty
ServeGrpcSave(user, fault) ==
    LET traceID == uuidNew(served.drawn)
        added   == addMessage(fs[M], user, TraceText, 0, fault)
    IN  /\ IF rejects(user, TraceText)
           THEN GrpcCalled("grpc Save", traceID, Reply("grpc", 2, NoTrace, NoTrace, <<>>, TRUE))
                /\ UNCHANGED fs
           ELSE IF added.err
           THEN GrpcCalled("grpc Save", traceID, Reply("grpc", 2, NoTrace, NoTrace, <<>>, TRUE))
                /\ UNCHANGED fs
           ELSE /\ GrpcCalled("grpc Save", traceID, Reply("grpc", 0, NoTrace, NoTrace, <<>>, FALSE))
                /\ fs' = [fs EXCEPT ![M] = added.content]
        /\ TraceFrame

\* GetLast10 of the gRPC server
ServeGrpcGetLast10(fault) ==
    LET traceID == uuidNew(served.drawn)
        read    == readLast10Messages(fs[M], ctxValue(withValue(StringKey, traceID), StringKey),
                                      fault, 0)
    IN  /\ IF read.kind = "ok"
           THEN GrpcCalled("grpc GetLast10", traceID,
                           Reply("grpc", 0, NoTrace, NoTrace, read.messages, FALSE))
           ELSE GrpcCalled("grpc GetLast10", traceID,
                           Reply("grpc", 2, NoTrace, NoTrace, <<>>, TRUE))
        /\ UNCHANGED fs
        /\ TraceFrame

TraceNext ==
    \/ \E route \in HTTPRoutes : TraceMiddleware(route)
    \/ \E i \in 1..MaxRequests, user \in TraceUsers, fault \in Faults : ServeMessagesAPI(i, user, fault)
    \/ \E i \in 1..MaxRequests, fault \in Faults : ServeWebMessages(i, fault)
    \/ \E i \in 1..MaxRequests, action \in FileActions, fault \in Faults : ServeFiles(i, action, fault)
    \/ \E i \in 1..MaxRequests : ServeHealth(i)
    \/ \E i \in 1..MaxRequests, upgraded \in BOOLEAN, fault \in Faults : ServeWebSocket(i, upgraded, fault)
    \/ \E i \in 1..MaxRequests, user \in TraceUsers : ServeService(i, user)
    \/ \E user \in TraceUsers, fault \in Faults : ServeGrpcSave(user, fault)
    \/ \E fault \in Faults : ServeGrpcGetLast10(fault)

TraceSpec == TraceInit /\ [][TraceNext]_vars

Requests == 1..Len(served.reqs)
RespondedRequest(i) == served.reqs[i].pc = "responded"
ThroughMiddleware(i) == served.reqs[i].route \in HTTPRoutes
\* the response was written through the http.ResponseWriter the middleware set
\* the header on (every response but the frames of an upgraded connection)
WrittenThroughW(i) == RespondedRequest(i) /\ served.reqs[i].out.kind \in {"json", "text", "html"}

ReadRoutes == {"GET /messages", "GET /web/messages", "GET /ws", "grpc GetLast10"}
WriteRoutes == {"POST /messages", "grpc Save"}

\* the text of an identifier drawn in this run is in the file
traceInFile == \E p \in Paths : has(fs[p].bytes, "#")

\* C16: no identifier is in a file, and every message a read returns carries the
\* identifier of the reading request, which is the trace_id of a JSON response.
C16_ReaderTrace ==
    served.kind = "serving" =>
        /\ ~traceInFile
        /\ \A i \in Requests :
              (RespondedRequest(i) /\ served.reqs[i].route \in ReadRoutes) =>
                  LET r == served.reqs[i]
                  IN  /\ \A k \in 1..Len(r.out.messages) : r.out.messages[k].traceID = r.trace
                      /\ (r.out.kind = "json" /\ ~r.out.failed) => r.out.traceID = r.trace

\* a read has returned a line that an earlier request, with another identifier, wrote
C16_Witness ==
    /\ served.kind = "serving"
    /\ \E i, j \in Requests :
          /\ j < i
          /\ served.reqs[j].route \in WriteRoutes /\ ~served.reqs[j].out.failed
          /\ RespondedRequest(i) /\ served.reqs[i].route \in ReadRoutes
          /\ served.reqs[i].out.messages # <<>>
          /\ served.reqs[i].out.messages[Len(served.reqs[i].out.messages)].user = <<"a">>
          /\ served.reqs[j].trace # served.reqs[i].trace

\* C17 as stated: every error response carries, as its X-Trace-ID header or as
\* its trace_id, the identifier of the request that failed.
C17_ErrorsCarryTrace ==
    served.kind = "serving" =>
        \A i \in Requests :
            (RespondedRequest(i) /\ served.reqs[i].out.failed) =>
                \/ served.reqs[i].out.header = served.reqs[i].trace
                \/ served.reqs[i].out.traceID = served.reqs[i].trace

\* the error responses of the JSON and HTML routes do carry it
HTTPErrorsCarryTrace ==
    served.kind = "serving" =>
        \A i \in Requests :
            (WrittenThroughW(i) /\ served.reqs[i].out.failed) =>
                served.reqs[i].out.header = served.reqs[i].trace

----------------------------------------------------------------------------
(* The WebSocket endpoint: one connection is taken through websocketHandler *)
(* a step at a time, while another client may append to messages.txt.      *)

\* the files the connection is opened on: every sequence of line kinds up to
\* this length, and long files
MaxWsFile == 2
\* appends by other clients while the connection is open
MaxLaterAppends == 1

WsFiles ==
    {NoFile}
    \cup {File(bytesOfKinds(kinds, 1)) : kinds \in UNION {[1..k -> LineKinds] : k \in 0..MaxWsFile}}
    \cup {File(bytesOfKinds(oneBadKinds(bad, "short"), 1)) : bad \in {1, LongFileLines}}

WsTraceID == "t1"

\* json.Marshal(message) sent as one text frame; the two fixed text frames
MessageFrame(message) == [type |-> "json", message |-> message]
SentinelFrame == [type |-> "text", text |-> "All messages sent. Connection will close."]
ErrorFrame == [type |-> "text", text |-> "Error reading messages"]

WsInit ==
    /\ fs \in {[p \in Paths |-> IF p = M THEN f ELSE NoFile] : f \in WsFiles}
    /\ resp = NoResp
    /\ cleared = FALSE
    /\ QueryIdle
    /\ CodecIdle
    /\ writers = NoWriters
    /\ served = NoServed
    /\ proc = NoProc
    /\ conn = [kind |-> "ws", pc |-> "requested", seen |-> NoFile, readOk |-> FALSE,
               messages |-> <<>>, next |-> 1, frames |-> <<>>, broken |-> FALSE,
               appends |-> 0]

WsFrame == UNCHANGED <<resp, cleared, qfile, qres, cin, cout, writers, served, proc>>

\* a write whose failure is not remembered: the frame is lost and later frames go out
WriteMessageLosing(c, frame, fails) ==
    IF fails THEN c ELSE [c EXCEPT !.frames = Append(@, frame)]

\* conn.WriteMessage(websocket.TextMessage, frame): the frame goes out, or the
\* write fails; after a failed write every later write of the connection fails
WriteMessage(c, frame, fails) ==
    IF c.broken \/ fails THEN [c EXCEPT !.broken = TRUE]
    ELSE [c EXCEPT !.frames = Append(@, frame)]

\* conn, err := upgrader.Upgrade(w, r, nil); if err != nil { return }
WsUpgrade(ok) ==
    /\ conn.kind = "ws" /\ conn.pc = "requested"
    /\ conn' = [conn EXCEPT !.pc = IF ok THEN "upgraded" ELSE "closed"]
    /\ UNCHANGED fs
    /\ WsFrame

\* messages, err := getLastMessages(ctx, 10); on an error the error frame is
\* written and the handler returns (defer conn.Close()); a panic of the read
\* unwinds through the deferred Close
WsRead(fault, fails) ==
    LET read == getLastMessages(fs[M], Last10, WsTraceID, fault, 0)
    IN  /\ conn.kind = "ws" /\ conn.pc = "upgraded"
        /\ conn' = CASE read.kind = "ok" ->
                          [conn EXCEPT !.pc = IF read.messages = <<>> THEN "finishing" ELSE "sending",
                                       !.seen = fs[M], !.readOk = TRUE,
                                       !.messages = read.messages]
                     [] read.kind = "err" ->
                          [WriteMessage(conn, ErrorFrame, fails) EXCEPT !.pc = "closed", !.seen = fs[M]]
                     [] OTHER ->
                          [conn EXCEPT !.pc = "closed", !.seen = fs[M]]
        /\ read.kind # "err" => ~fails
        /\ UNCHANGED fs
        /\ WsFrame

\* one turn of for _, message := range messages: the frame is written; a failed
\* write breaks the loop
WsSend(fails) ==
    LET sent == WriteMessage(conn, MessageFrame(conn.messages[conn.next]), fails)
    IN  /\ conn.kind = "ws" /\ conn.pc = "sending"
        /\ conn' = [sent EXCEPT !.next = @ + 1,
                                !.pc = IF sent.broken \/ conn.next = Len(conn.messages)
                                       THEN "finishing" ELSE "sending"]
        /\ UNCHANGED fs
        /\ WsFrame

\* conn.WriteMessage(..., "All messages sent. Connection will close."); conn.Close()
WsFinish(fails) ==
    /\ conn.kind = "ws" /\ conn.pc = "finishing"
    /\ conn' = [WriteMessage(conn, SentinelFrame, fails) EXCEPT !.pc = "closed"]
    /\ UNCHANGED fs
    /\ WsFrame

\* another client's POST /messages is served while the connection is open
LaterAppend ==
    /\ conn.kind = "ws" /\ conn.appends < MaxLaterAppends
    /\ fs' = [fs EXCEPT ![M] = addMessage(fs[M], <<"a">>, <<"b">>, 0, "none").content]
    /\ conn' = [conn EXCEPT !.appends = @ + 1]
    /\ WsFrame

\* the steps of the handler
WsHandler ==
    \/ \E ok \in BOOLEAN : WsUpgrade(ok)
    \/ \E fault \in Faults, fails \in BOOLEAN : WsRead(fault, fails)
    \/ \E fails \in BOOLEAN : WsSend(fails)
    \/ \E fails \in BOOLEAN : WsFinish(fails)

WsNext ==
    \/ \E ok \in BOOLEAN : WsUpgrade(ok)
    \/ \E fault \in Faults, fails \in BOOLEAN : WsRead(fault, fails)
    \/ \E fails \in BOOLEAN : WsSend(fails)
    \/ \E fails \in BOOLEAN : WsFinish(fails)
    \/ LaterAppend

WsSpec == WsInit /\ [][WsNext]_vars

\* the frames of the last min(10, count) decodable lines of the file read, in
\* file order, each carrying the user and text of its line
pushesLastTen(frames, content) ==
    LET lines == linesOf(content)
        dec   == decodablePositions(lines)
        m     == Cardinality(dec)
    IN  /\ Len(frames) = Min(Last10, m)
        /\ \A i \in 1..Len(frames) :
              /\ frames[i].type = "json"
              /\ carriesLine(frames[i].message, lines[kth(dec, m - Len(frames) + i)])

\* C19: on a connection whose read succeeded the frames sent are, at every
\* moment, a beginning of: the last min(10, count) messages of the file as it
\* was read, oldest first, then the sentinel; a connection closed without a
\* failed write has sent all of them, the sentinel once and last; and until it
\* is closed the handler has a step to take without any input of the client.
C19_PushOnce ==
    (conn.kind = "ws" /\ conn.readOk) =>
        LET whole == [i \in 1..Len(conn.messages) |-> MessageFrame(conn.messages[i])]
        IN  /\ pushesLastTen(whole, conn.seen)
            /\ isPrefix(conn.frames, Append(whole, SentinelFrame))
            /\ (conn.pc = "closed" /\ ~conn.broken) => conn.frames = Append(whole, SentinelFrame)
            /\ conn.pc # "closed" => ENABLED WsHandler

\* a connection opened on a file of more than ten messages is closed, ten
\* message frames and the sentinel sent, a line appended meanwhile left out
C19_Witness ==
    /\ conn.kind = "ws" /\ conn.readOk /\ conn.pc = "closed" /\ ~conn.broken
    /\ Len(conn.frames) = Last10 + 1
    /\ conn.frames[Len(conn.frames)] = SentinelFrame
    /\ fs[M] # conn.seen

----------------------------------------------------------------------------
(* The storage package alone: SaveData and ReadData are called on two      *)
(* paths, each of which may hold a file before the first call.             *)

\* the saves of one path are counted up to MaxSaves
MaxSaves == 2

StorageData == {<<>>, <<"x">>, <<"y", NL>>, <<CR, NL, "x">>}
StartContents == {NoFile, File(<<"o">>)}

NeverSaved == [count |-> 0, data |-> <<>>, created |-> FALSE]

\* resp of this specification: the call made last (op, path, data handed in or
\* returned, err), for each path the history of its successful saves, and the
\* operations that have returned an error
StorageInit ==
    /\ fs \in [Paths -> StartContents]
    /\ resp = [op |-> "none", path |-> "", data |-> <<>>, err |-> FALSE,
               saved |-> [p \in Paths |-> NeverSaved], errors |-> {}]
    /\ cleared = FALSE
    /\ QueryIdle
    /\ CodecIdle
    /\ ProcessesIdle

StorageFrame == UNCHANGED <<cleared, qfile, qres, cin, cout, writers, conn, served, proc>>

\* err := storage.SaveData(ctx, path, data)
CallSaveData(path, data, fault) ==
    LET out == SaveData(fs[path], data, fault)
    IN  /\ fs' = [fs EXCEPT ![path] = out.content]
        /\ resp' = [op |-> "SaveData", path |-> path, data |-> data, err |-> out.err,
                    saved |-> IF out.err THEN resp.saved
                              ELSE [resp.saved EXCEPT ![path] =
                                       [count |-> Min(@.count + 1, MaxSaves), data |-> data,
                                        created |-> IF @.count = 0 THEN ~fs[path].exists
                                                    ELSE @.created]],
                    errors |-> IF out.err THEN resp.errors \cup {"SaveData"} ELSE resp.errors]
        /\ StorageFrame

\* content, err := storage.ReadData(ctx, path)
CallReadData(path, fault) ==
    LET out == ReadData(fs[path], fault)
    IN  /\ resp' = [op |-> "ReadData", path |-> path, data |-> out.data, err |-> out.err,
                    saved |-> resp.saved,
                    errors |-> IF out.err THEN resp.errors \cup {"ReadData"} ELSE resp.errors]
        /\ UNCHANGED fs
        /\ StorageFrame

StorageNext ==
    \/ \E path \in Paths, data \in StorageData, fault \in Faults : CallSaveData(path, data, fault)
    \/ \E path \in Paths, fault \in Faults : CallReadData(path, fault)

StorageSpec == StorageInit /\ [][StorageNext]_vars

\* C20: a successful SaveData leaves a file at the path, created if there was
\* none, and a successful ReadData of a path returns exactly what the last
\* successful SaveData of that path was handed, the empty string included,
\* and nothing of what the path held before.
C20_SaveThenRead ==
    resp.op \in {"SaveData", "ReadData"} =>
        /\ (resp.op = "SaveData" /\ ~resp.err) =>
               /\ fs[resp.path].exists
               /\ ReadData(fs[resp.path], "none") = [err |-> FALSE, data |-> resp.data]
        /\ (resp.op = "ReadData" /\ ~resp.err /\ resp.saved[resp.path].count > 0) =>
               resp.data = resp.saved[resp.path].data

\* a path that held no file was saved MaxSaves times or more, last with the
\* empty string, and a read then returned the empty string
C20_Witness ==
    /\ resp.op = "ReadData" /\ ~resp.err
    /\ resp.saved[resp.path].count = MaxSaves
    /\ resp.saved[resp.path].created
    /\ resp.data = <<>>

\* C21: a SaveData whose write of the path is refused returns an error, a
\* ReadData of a path that holds no file returns an error and the empty string,
\* and a call that returned an error left every path as it was.
C21_StorageErrors ==
    [][/\ (resp'.op = "ReadData" /\ ~fs[resp'.path].exists) =>
              resp'.err /\ resp'.data = <<>>
       /\ resp'.err => fs' = fs]_vars

\* a save and a read have failed, the read just now on a path that holds no file
C21_Witness ==
    /\ resp.op = "ReadData" /\ resp.err /\ resp.data = <<>>
    /\ ~fs[resp.path].exists
    /\ resp.errors = {"SaveData", "ReadData"}

----------------------------------------------------------------------------
(* Shutdown of the servers: startWebApplication of main.go, runAssignment3  *)
(* of the service and main of the gRPC server, from the moment they serve.  *)
(* Time is counted in seconds from the call of server.Shutdown.             *)

\* requests in flight at one moment
MaxInflight == 2

\* gracefulShutdownTimeout = 30 * time.Second
gracefulShutdownTimeout == 30

Servers == {"main", "service", "grpc"}
\* signal.Notify(sigChan, syscall.SIGINT, syscall.SIGTERM) is called by these
NotifiedServers == {"main", "service"}

\* pc: "serving", "draining" (inside server.Shutdown) or "stopped".  listening:
\* the listener is open.  sigChan: signals in the channel of size 1.  exit: the
\* way the process ended ("": running).
ServerInit ==
    /\ \E program \in Servers, bound \in BOOLEAN :
          proc = [kind |-> "server", program |-> program,
                  pc |-> IF program = "grpc" /\ ~bound THEN "stopped" ELSE "serving",
                  listening |-> bound, sigChan |-> 0, signalled |-> FALSE,
                  inflight |-> 0, elapsed |-> 0,
                  exit |-> IF program = "grpc" /\ ~bound THEN "fatal" ELSE ""]
    /\ SystemIdle
    /\ QueryIdle
    /\ CodecIdle
    /\ writers = NoWriters
    /\ conn = NoConn
    /\ served = NoServed

ServerFrame == UNCHANGED <<fs, resp, cleared, qfile, qres, cin, cout, writers, conn, served>>

Running == proc.kind = "server" /\ proc.pc # "stopped"

\* the listener hands a new request to a handler
Accept ==
    /\ Running /\ proc.listening /\ proc.inflight < MaxInflight
    /\ proc' = [proc EXCEPT !.inflight = @ + 1]
    /\ ServerFrame

\* a handler returns
Complete ==
    /\ Running /\ proc.inflight > 0
    /\ proc' = [proc EXCEPT !.inflight = @ - 1]
    /\ ServerFrame

\* SIGINT or SIGTERM reaches the process: it goes into sigChan if there is room,
\* and ends a process that has not asked for it (the gRPC server)
Signal ==
    /\ Running
    /\ proc' = IF proc.program \in NotifiedServers
               THEN [proc EXCEPT !.signalled = TRUE, !.sigChan = 1]
               ELSE [proc EXCEPT !.signalled = TRUE, !.pc = "stopped", !.listening = FALSE,
                                 !.inflight = 0, !.exit = "signal"]
    /\ ServerFrame

\* sig := <-sigChan; ctx with the timeout; server.Shutdown(ctx) closes the listener
ReceiveSignal ==
    /\ Running /\ proc.pc = "serving" /\ proc.sigChan > 0
    /\ proc' = [proc EXCEPT !.sigChan = 0, !.pc = "draining", !.listening = FALSE, !.elapsed = 0]
    /\ ServerFrame

\* a second passes while server.Shutdown waits
Tick ==
    /\ Running /\ proc.pc = "draining"
    /\ proc.inflight > 0 /\ proc.elapsed < gracefulShutdownTimeout
    /\ proc' = [proc EXCEPT !.elapsed = @ + 1]
    /\ ServerFrame

\* a Shutdown given context.Background(): it returns only when no request is in flight
shutdownReturnsWhenIdle(inflight, elapsed) == inflight = 0

\* server.Shutdown(ctx) returns nil once no request is in flight, ctx.Err() once
\* the timeout has passed
shutdownReturns(inflight, elapsed) == inflight = 0 \/ elapsed >= gracefulShutdownTimeout

\* Shutdown returns; main.go prints or calls os.Exit(1), the service returns nil
\* or the error to its caller; the process ends
ShutdownReturns ==
    /\ Running /\ proc.pc = "draining"
    /\ shutdownReturns(proc.inflight, proc.elapsed)
    /\ proc' = [proc EXCEPT !.pc = "stopped",
                            !.exit = IF proc.inflight = 0 THEN "graceful" ELSE "timeout",
                            !.inflight = 0]
    /\ ServerFrame

ServerNext ==
    \/ Accept
    \/ Complete
    \/ Signal
    \/ ReceiveSignal
    \/ Tick
    \/ ShutdownReturns

\* the main goroutine is scheduled and time passes
ServerSpec ==
    /\ ServerInit
    /\ [][ServerNext]_vars
    /\ WF_vars(ReceiveSignal)
    /\ WF_vars(Tick)
    /\ WF_vars(ShutdownReturns)

----------------------------------------------------------------------------
(* The Assignment 2 programs: main of assignmentTwo.go, runAssignment2 of   *)
(* the service and runStorageDemo of main.go, each saving example.txt,      *)
(* reading it back and logging with the context it made.                    *)

Programs == {"assignmentTwo", "runAssignment2", "runStorageDemo"}
\* the programs that call signal.Notify and read the channel before they end
WaitingPrograms == {"assignmentTwo", "runAssignment2"}

\* the key the program puts its TraceID under: ctxKey("traceID") of assignmentTwo.go,
\* types.CtxKey("traceID") of the service, "traceID" of main.go
LocalKey == <<"main.ctxKey", "traceID">>
programKey(program) ==
    CASE program = "assignmentTwo" -> LocalKey
      [] program = "runAssignment2" -> CtxKey
      [] OTHER -> StringKey

\* slog.InfoContext(ctx, ..., "traceID", traceID): the record's logger and its traceID
LogRecord(by, traceID) == [by |-> by, traceID |-> traceID]

\* the records of a call of the storage package: one at its start and one for
\* its outcome, each with traceID, _ := ctx.Value("traceID").(string)
storageLogs(ctx) ==
    <<LogRecord("storage", ctxValue(ctx, StringKey)), LogRecord("storage", ctxValue(ctx, StringKey))>>

\* the text saved: the -data flag or the fixed greeting, with the timestamp line
ProgramData == {<<"x", NL, "0">>, <<"x", NL, "1">>, <<"y", NL, "0">>}

Assignment2Init ==
    /\ \E program \in Programs, data \in ProgramData :
          proc = [kind |-> "assignment2", program |-> program, pc |-> "start",
                  data |-> data, preview |-> <<>>,
                  trace |-> NoTrace, ctx |-> withValue(StringKey, NoTrace),
                  notified |-> FALSE, sigChan |-> 0, signalled |-> FALSE,
                  logs |-> <<>>, exit |-> ""]
    /\ fs \in {[p \in Paths |-> IF p = OtherFileName THEN f ELSE NoFile] : f \in StartContents}
    /\ resp = NoResp
    /\ cleared = FALSE
    /\ QueryIdle
    /\ CodecIdle
    /\ writers = NoWriters
    /\ conn = NoConn
    /\ served = NoServed

Assignment2Frame == UNCHANGED <<resp, cleared, qfile, qres, cin, cout, writers, conn, served>>

ProgramAt(pc) == proc.kind = "assignment2" /\ proc.pc = pc

\* traceID := uuid.New().String(); ctx := context.WithValue(..., key, traceID);
\* the programs of assignmentTwo.go and of the service log their start
MakeContext ==
    LET traceID == uuidNew(0)
    IN  /\ ProgramAt("start")
        /\ proc' = [proc EXCEPT !.pc = "context", !.trace = traceID,
                                !.ctx = withValue(programKey(proc.program), traceID),
                                !.logs = IF proc.program \in WaitingPrograms
                                         THEN Append(@, LogRecord("main", traceID)) ELSE @]
        /\ UNCHANGED fs
        /\ Assignment2Frame

\* sigChan := make(chan os.Signal, 1); signal.Notify(sigChan, SIGINT, SIGTERM)
Notify ==
    /\ ProgramAt("context")
    /\ proc' = [proc EXCEPT !.pc = "save", !.notified = (proc.program \in WaitingPrograms)]
    /\ UNCHANGED fs
    /\ Assignment2Frame

\* err := storage.SaveData(ctx, filePath, data): on an error main of
\* assignmentTwo.go goes on to wait, the other two return
SaveStep(fault) ==
    LET out == SaveData(fs[OtherFileName], proc.data, fault)
        logged == proc.logs \o storageLogs(proc.ctx)
                  \o (IF proc.program \in WaitingPrograms
                      THEN <<LogRecord("main", proc.trace)>> ELSE <<>>)
    IN  /\ ProgramAt("save")
        /\ fs' = [fs EXCEPT ![OtherFileName] = out.content]
        /\ proc' = [proc EXCEPT
                      !.logs = logged,
                      !.pc = IF ~out.err THEN "read"
                             ELSE IF proc.program = "assignmentTwo" THEN "waiting" ELSE "exited",
                      !.exit = IF out.err /\ proc.program # "assignmentTwo" THEN "error" ELSE @]
        /\ Assignment2Frame

\* readData, err := storage.ReadData(ctx, filePath)
ReadStep(fault) ==
    LET out == ReadData(fs[OtherFileName], fault)
        logged == proc.logs \o storageLogs(proc.ctx)
                  \o (IF proc.program \in WaitingPrograms
                      THEN <<LogRecord("main", proc.trace)>> ELSE <<>>)
    IN  /\ ProgramAt("read")
        /\ proc' = [proc EXCEPT
                      !.logs = logged,
                      !.preview = out.data,
                      !.pc = CASE proc.program = "assignmentTwo" -> "waiting"
                               [] proc.program = "runAssignment2" ->
                                     IF out.err THEN "exited" ELSE "waiting"
                               [] OTHER -> "exited",
                      !.exit = CASE proc.program = "assignmentTwo" -> @
                                 [] out.err -> "error"
                                 [] proc.program = "runStorageDemo" -> "done"
                                 [] OTHER -> @]
        /\ UNCHANGED fs
        /\ Assignment2Frame

\* sig := <-sigChan, the two last records, return
ReceiveInterrupt ==
    /\ ProgramAt("waiting") /\ proc.sigChan > 0
    /\ proc' = [proc EXCEPT !.pc = "exited", !.sigChan = 0, !.exit = "done",
                            !.logs = @ \o <<LogRecord("main", NoTrace), LogRecord("main", NoTrace)>>]
    /\ UNCHANGED fs
    /\ Assignment2Frame

\* SIGINT or SIGTERM reaches the process: into sigChan after signal.Notify, the
\* end of the process before it
Interrupt ==
    /\ proc.kind = "assignment2" /\ proc.pc # "exited" /\ ~proc.signalled
    /\ proc' = IF proc.notified
               THEN [proc EXCEPT !.signalled = TRUE, !.sigChan = 1]
               ELSE [proc EXCEPT !.signalled = TRUE, !.pc = "exited", !.exit = "signal"]
    /\ UNCHANGED fs
    /\ Assignment2Frame

Assignment2Next ==
    \/ MakeContext
    \/ Notify
    \/ \E fault \in Faults : SaveStep(fault)
    \/ \E fault \in Faults : ReadStep(fault)
    \/ ReceiveInterrupt
    \/ Interrupt

Assignment2Spec ==
    /\ Assignment2Init
    /\ [][Assignment2Next]_vars
    /\ WF_vars(MakeContext) /\ WF_vars(Notify)
    /\ WF_vars(\E fault \in Faults : SaveStep(fault))
    /\ WF_vars(\E fault \in Faults : ReadStep(fault))
    /\ WF_vars(ReceiveInterrupt)

\* C23 as stated: an Assignment 2 application that has ended has got SIGINT or
\* SIGTERM before, whether or not its save and read went well.
C23_ExitsOnlyOnSignal ==
    (proc.kind = "assignment2" /\ proc.program \in WaitingPrograms /\ proc.pc = "exited")
        => proc.signalled

\* main of assignmentTwo.go ends only after the signal
AssignmentTwoWaits ==
    (proc.kind = "assignment2" /\ proc.program = "assignmentTwo" /\ proc.pc = "exited")
        => proc.signalled

\* C24 as stated: every record the storage package logs carries the TraceID the
\* caller put into the context, and that TraceID is not empty.
C24_StorageLogsTrace ==
    proc.kind = "assignment2" =>
        \A i \in 1..Len(proc.logs) :
            proc.logs[i].by = "storage" =>
                proc.logs[i].traceID = proc.trace /\ proc.logs[i].traceID # NoTrace

\* with the string key of main.go the records of the storage package carry it
StringKeyLogsTrace ==
    (proc.kind = "assignment2" /\ proc.program = "runStorageDemo") =>
        \A i \in 1..Len(proc.logs) :
            proc.logs[i].by = "storage" => proc.logs[i].traceID = proc.trace

----------------------------------------------------------------------------
(* The file-storage endpoint alone: POST /api/files on two paths, each of   *)
(* which may hold a file before the first request.                          *)

FileMethods == {"POST", "GET"}
FilePaths == Paths \cup {""}
FileActionInputs == {"", "save", "read", "delete"}
FileData == {<<>>, <<"x">>, <<"y", NL>>}

FilesInit ==
    /\ fs \in [Paths -> StartContents]
    /\ resp = NoResp
    /\ cleared = FALSE
    /\ QueryIdle
    /\ CodecIdle
    /\ ProcessesIdle

FilesNext ==
    \E method \in FileMethods, path \in FilePaths, data \in FileData,
       action \in FileActionInputs, fault \in Faults, traceID \in TraceIDs :
        FileStorageHandler(method, path, data, action, fault, traceID)

FilesSpec == FilesInit /\ [][FilesNext]_vars

\* the body of the request is turned away: a field is missing, the action is
\* unknown, or there is nothing to save
BadFileRequest(path, data, action) ==
    \/ path = "" \/ action = ""
    \/ action \notin {"save", "read"}
    \/ action = "save" /\ data = <<>>

\* C26: a request that is not a POST is answered 405; a POST whose body is
\* turned away is answered 400; neither reads or writes a file.  Any other
\* request is answered 500 when its storage operation fails, leaving the files
\* as they were, and 200 when it succeeded: the data is then in the file
\* (save) or the file's bytes are in the answer (read).
C26_FileEndpoint ==
    [][\A method \in FileMethods, path \in FilePaths, data \in FileData,
          action \in FileActionInputs, fault \in Faults, traceID \in TraceIDs :
          FileStorageHandler(method, path, data, action, fault, traceID) =>
              IF method # "POST"
              THEN resp'.status = 405 /\ resp'.store = "none" /\ fs' = fs
              ELSE IF BadFileRequest(path, data, action)
              THEN resp'.status = 400 /\ resp'.store = "none" /\ fs' = fs
              ELSE IF action = "save"
              THEN IF fault = "denied"
                   THEN resp'.status = 500 /\ fs' = fs
                   ELSE resp'.status = 200 /\ fs' = [fs EXCEPT ![path] = File(data)]
              ELSE IF fault = "denied" \/ ~fs[path].exists
                   THEN resp'.status = 500 /\ fs' = fs
                   ELSE resp'.status = 200 /\ resp'.data = fs[path].bytes /\ fs' = fs]_vars

\* a read has been answered 200 with what an earlier save put in the file
C26_Witness ==
    /\ resp.op = "/api/files read" /\ resp.status = 200
    /\ resp.data = <<"y", NL>>


-----------------------------------------------------------------------------
(* The command line in message mode: the flags -clear, -user and -message of  *)
(* handleCLIOperations (main.go) and of runAssignment1 (service package; the  *)
(* main of the Assignment 1 command line has the same order of tests).        *)

\* the values of the flags -user and -message: absent or given
CliUsers == {<<>>, <<"a">>}
CliTexts == {<<>>, <<"b">>}

CliInit == Init

CliNext ==
    \/ \E clear \in BOOLEAN, user \in CliUsers, message \in CliTexts, t \in RequestClock,
          fault \in Faults :
            HandleCLIOperations(clear, user, message, t, fault)
    \/ \E clear \in BOOLEAN, user \in CliUsers, message \in CliTexts, fault \in Faults :
            RunAssignment1(clear, user, message, fault)

CliSpec == CliInit /\ [][CliNext]_vars

\* what one run of the command line may do to the messages file and print
CliEffect(clear, user, message, fault, line) ==
    IF clear
    THEN /\ fs'[M].exists = fs[M].exists
         /\ fs'[M].bytes = IF fault = "none" THEN <<>> ELSE fs[M].bytes
         /\ resp'.data = <<>>
    ELSE IF user # <<>> /\ message # <<>>
    THEN fs'[M].bytes = IF fault = "none" THEN fs[M].bytes \o line ELSE fs[M].bytes
    ELSE fs' = fs /\ resp'.data = <<>>

\* C27: in message mode -clear is handled first: with -clear the file is truncated
\* and no message is appended or printed, even when -user and -message are given
\* too; without -clear a message is appended only when -user and -message are both
\* non-empty, and otherwise the file stays as it was.
C27_ClearFirst ==
    [][/\ \A clear \in BOOLEAN, user \in CliUsers, message \in CliTexts,
             t \in RequestClock, fault \in Faults :
               HandleCLIOperations(clear, user, message, t, fault) =>
                   CliEffect(clear, user, message, fault,
                             FormatLine(FormatTime(t), user, message))
       /\ \A clear \in BOOLEAN, user \in CliUsers, message \in CliTexts,
             fault \in Faults :
               RunAssignment1(clear, user, message, fault) =>
                   CliEffect(clear, user, message, fault, FormatPlainLine(user, message))]_vars

\* -clear together with -user and -message emptied a file that held messages
C27_Witness ==
    /\ resp.op = "cli" /\ resp.store = "truncate" /\ resp.status = 0
    /\ resp.user # <<>> /\ resp.message # <<>> /\ resp.data = <<>>
    /\ fs[M].exists /\ fs[M].bytes = <<>> /\ cleared

-----------------------------------------------------------------------------
(* The decoder on every line it may be handed.                               *)

\* C28: the decoder is total: for every stored line, whatever its length and
\* wherever "[", "] " and ": " stand in it, parseMessageLine returns nil or a
\* message and never aborts, so no line of the file makes a read fail.
C28_DecodeTotal ==
    cout.kind = "decoded" =>
        /\ cout.parsed # Panic
        /\ cout.read # Panic
        /\ cout.grpc # Panic

\* the lines on which the decoder aborts are the lines of 22 characters or more
\* that begin with "] " and hold a ": " later on; on every other line it returns
\* nil or a message
DecodeAbortsOnBracketFirst ==
    cout.kind = "decoded" =>
        /\ (cout.parsed = Panic) <=>
               (/\ Len(cin.line) >= 22
                /\ firstBracket(cin.line) = 1
                /\ colonAfterBracket(cin.line))
        /\ (cout.read = Panic) <=> (cout.parsed = Panic)
        /\ (cout.grpc = Panic) <=> (cout.parsed = Panic)

-----------------------------------------------------------------------------
(* Appends, clears and full reads of messages.txt one after the other:       *)
(* POST /messages, the command line of main.go and GET /messages.            *)

\* a text whose second line begins with "] ": the JSON string "b\n] ... u: x"
abortingText == <<"b", NL, "]", " ">> \o FormatTime(0) \o <<" ", "u", ":", " ", "x">>

HistoryUsers == {<<>>, <<"a">>}
HistoryTexts == {<<>>, <<"b">>, <<"b", NL, "c">>, abortingText}

HistoryInit == Init

HistoryNext ==
    \/ \E user \in HistoryUsers, message \in HistoryTexts, t \in RequestClock,
          fault \in Faults, traceID \in TraceIDs :
            CreateMessageAPI(FALSE, user, message, t, fault, traceID)
    \/ \E clear \in BOOLEAN, user \in HistoryUsers, message \in HistoryTexts,
          t \in RequestClock, fault \in Faults :
            HandleCLIOperations(clear, user, message, t, fault)
    \/ \E fault \in Faults, traceID \in TraceIDs, now \in RequestClock :
            GetMessagesAPI(fault, traceID, now)

HistorySpec == HistoryInit /\ [][HistoryNext]_vars

\* the full read of a file: readMessagesForAPI with the file opened
fullRead(content) == readMessagesForAPI(content, "t1", "none", 0)

\* (id, user, text) of every message of a full read
reported(messages) ==
    [i \in 1..Len(messages) |-> <<messages[i].id, messages[i].user, messages[i].message>>]

\* C29: between two clears an append never changes what the query layer reports
\* for the messages stored before it: the (id, user, text) sequence of a full read
\* before the append is a prefix of the sequence of a full read after it.
C29_AppendKeepsReported ==
    [][(resp'.store = "append" /\ fullRead(fs[M]).kind = "ok") =>
           /\ fullRead(fs'[M]).kind = "ok"
           /\ isPrefix(reported(fullRead(fs[M]).messages),
                       reported(fullRead(fs'[M]).messages))]_vars

\* an append after which the full read still returns keeps what was reported
AppendKeepsReportedWhenRead ==
    [][(resp'.store = "append" /\ fullRead(fs[M]).kind = "ok"
           /\ fullRead(fs'[M]).kind = "ok") =>
           isPrefix(reported(fullRead(fs[M]).messages),
                    reported(fullRead(fs'[M]).messages))]_vars

-----------------------------------------------------------------------------
(* The operations that read messages.txt, on every kind of file: GET          *)
(* /messages, GET /web/messages, gRPC GetLast10, GET /ws, the print of the    *)
(* command line and GET /health.                                              *)

ReadsInit ==
    /\ fs \in {[p \in Paths |-> IF p = M THEN f ELSE NoFile] : f \in WsFiles}
    /\ resp = NoResp
    /\ cleared = FALSE
    /\ QueryIdle
    /\ CodecIdle
    /\ ProcessesIdle

ReadsFrame == UNCHANGED <<cleared, qfile, qres, cin, cout, writers, conn, served, proc>>

\* webMessagesHandler of main.go: the page, or http.Error 500
WebMessagesHandler(fault, traceID, now) ==
    LET page == webMessagesHandler(fs[M], traceID, fault, now)
    IN  /\ resp' = CASE page.kind = "ok" ->
                          Response("GET /web/messages", <<>>, <<>>, "", 200, "read", fault, traceID,
                                   page.messages)
                     [] page.kind = "err" ->
                          Response("GET /web/messages", <<>>, <<>>, "", 500, "read", fault, traceID, <<>>)
                     [] OTHER ->
                          Response("GET /web/messages", <<>>, <<>>, "", -1, "read", fault, traceID, <<>>)
        /\ UNCHANGED fs
        /\ ReadsFrame

\* websocketHandler of main.go from the upgrade to the close: the messages pushed
WebsocketHandler(upgraded, fault, traceID) ==
    LET read == getLastMessages(fs[M], Last10, traceID, fault, 0)
    IN  /\ resp' = IF ~upgraded
                   THEN Response("GET /ws", <<>>, <<>>, "", 400, "none", "none", traceID, <<>>)
                   ELSE CASE read.kind = "ok" ->
                               Response("GET /ws", <<>>, <<>>, "", 101, "read", fault, traceID,
                                        read.messages)
                          [] read.kind = "err" ->
                               Response("GET /ws", <<>>, <<>>, "", 101, "read", fault, traceID, <<>>)
                          [] OTHER ->
                               Response("GET /ws", <<>>, <<>>, "", -1, "read", fault, traceID, <<>>)
        /\ UNCHANGED fs
        /\ ReadsFrame

\* printLast10Messages() of the command line: the lines printed, or the error printed
PrintLast10Messages(fault) ==
    LET printed == printLast10Messages(fs[M], fault)
    IN  /\ resp' = Response("cli print", <<>>, <<>>, "", IF printed.kind = "ok" THEN 0 ELSE 1,
                            "read", fault, "",
                            IF printed.kind = "ok" THEN printed.messages ELSE <<>>)
        /\ UNCHANGED fs
        /\ ReadsFrame

\* healthHandler of main.go: no file is opened
HealthHandler(traceID) ==
    /\ resp' = Response("GET /health", <<>>, <<>>, "", 200, "none", "none", traceID, <<>>)
    /\ UNCHANGED fs
    /\ ReadsFrame

ReadsNext ==
    \/ \E fault \in Faults, traceID \in TraceIDs, now \in RequestClock :
            GetMessagesAPI(fault, traceID, now)
    \/ \E fault \in Faults, traceID \in TraceIDs, now \in RequestClock :
            WebMessagesHandler(fault, traceID, now)
    \/ \E fault \in Faults, traceID \in TraceIDs, now \in RequestClock :
            GrpcGetLast10(fault, traceID, now)
    \/ \E upgraded \in BOOLEAN, fault \in Faults, traceID \in TraceIDs :
            WebsocketHandler(upgraded, fault, traceID)
    \/ \E fault \in Faults : PrintLast10Messages(fault)
    \/ \E traceID \in TraceIDs : HealthHandler(traceID)

ReadsSpec == ReadsInit /\ [][ReadsNext]_vars

\* C30: the read operations (GET /messages, GET /web/messages, gRPC GetLast10,
\* the WebSocket connect, the print of the last 10 and the health check) leave
\* the content of the message file as it was, and a read of a missing file does
\* not create it.
C30_ReadsLeaveFile ==
    [][ReadsNext => (fs'[M].bytes = fs[M].bytes /\ fs'[M].exists = fs[M].exists)]_vars

\* GET /messages on a missing messages.txt answered the empty list; no file came
C30_Witness ==
    /\ resp.op = "GET /messages" /\ resp.status = 200 /\ resp.store = "read"
    /\ resp.data = <<>>
    /\ ~fs[M].exists
=============================================================================
